---------------------------- MODULE Spec2Model ----------------------------
(***************************************************************************)
(* Model of the semantic-analysis stage of AntDB                           *)
(* (src/src/backend/parser/analyze.c).                                     *)
(*                                                                         *)
(* The module holds several state machines over disjoint groups of         *)
(* variables; each specification initialises every group and moves one:    *)
(*   SpecLock      applyLockingClause on one Query (row-marks)             *)
(*   SpecEntry     the entry points parse_analyze_for_gram,                *)
(*                 parse_analyze_varparams_for_gram and parse_sub_analyze  *)
(*                 as a call stack with errors (PG_TRY / PG_CATCH)         *)
(*   SpecQuery     analysis of one statement by an entry point: the        *)
(*                 statement transformers, the outer-join-marker rewrite   *)
(*                 and the ROWNUM rewrite                                  *)
(*   SpecDispatch  transformTopLevelStmt / transformStmt on statement      *)
(*                 trees (SELECT ... INTO)                                 *)
(*   SpecInsert    transformInsertStmt on one INSERT: the order in which   *)
(*                 relations are locked                                    *)
(*   SpecExecDirect  transformExecDirectStmt on one EXECUTE DIRECT         *)
(*   SpecSetOp     transformSetOperationStmt on one UNION: the column      *)
(*                 lists and the range table around ORDER BY               *)
(*   SpecUpdate    transformUpdateStmt on one UPDATE: the target list      *)
(*   SpecSetOpColumns  the loop of transformSetOperationTree over the      *)
(*                 pairs of columns of the two sides of a set operation    *)
(*   SpecSelect    transformSelectStmt on one simple SELECT: the order of  *)
(*                 the clause transformers                                 *)
(*   SpecLClause   transformLockingClause on one Query                     *)
(*   SpecDml       transformDeleteStmt and transformUpdateStmt: the        *)
(*                 visibility of the target relation to the clauses        *)
(*   SpecRecursion the recursion of transformSetOperationStmt,             *)
(*                 transformSetOperationTree and parse_sub_analyze as a    *)
(*                 call stack; FairRecursion is the same under weak        *)
(*                 fairness of its steps, for termination                  *)
(*   SpecChild     is_relation_child as transformInsertStmt calls it       *)
(***************************************************************************)
EXTENDS Integers, Sequences, FiniteSets, TLC

VARIABLES
    \* ---- Query fields touched by applyLockingClause
    rowMarks,       \* qry->rowMarks: sequence of RowMarkClause
    hasForUpdate,   \* qry->hasForUpdate
    applied,        \* history: the set of calls applyLockingClause has served
    \* ---- the entry points, as a call stack
    stack,          \* frames of the analysis calls in progress, innermost last
    overrideStack,  \* the override search path stack (namespace.c)
    pstates,        \* parse states made and not yet freed
    nextPstate,     \* allocation counter of make_parsestate
    error,          \* an error is propagating (ereport / PG_RE_THROW)
    lastExit,       \* history: how the last finished call left
    \* ---- the analysis of one statement
    parseTree,      \* the statement handed to the entry point
    entryPoint,     \* the entry point serving it
    pstate,         \* its ParseState
    query,          \* the Query under construction
    qpc,            \* how far the entry point has come
    qerr,           \* the error code raised, if any
    \* ---- the dispatch of one statement tree
    dtree,          \* the raw parse tree handed to transformTopLevelStmt
    dstmt,          \* the tree transformTopLevelStmt hands to transformStmt
    dresult,        \* what transformStmt gave
    dpc,            \* how far the dispatch has come
    \* ---- transformInsertStmt on one INSERT
    insertStmt,     \* the InsertStmt
    itrace,         \* history: the locks taken and the analyses begun, in order
    ipc,            \* how far transformInsertStmt has come
    \* ---- transformExecDirectStmt on one EXECUTE DIRECT
    execStmt,       \* the ExecDirectStmt: the node named and the inner statements
    IS_PGXC_DATANODE,      \* the server analysing it is a datanode
    xc_maintenance_mode,   \* the maintenance-mode setting
    eresult,        \* the Query of the inner statement
    step,           \* the RemoteQuery built
    epc,            \* how far transformExecDirectStmt has come
    eerr,           \* the error code raised, if any
    \* ---- transformSetOperationStmt on one set operation
    setopStmt,      \* the SelectStmt with op # SETOP_NONE: its tree of members
    setopPstate,    \* its ParseState: p_rtable, p_namespace
    setopQry,       \* the Query under construction
    sv,             \* the locals lockingClause, sv_rtable_length,
                    \* sv_namespace, tllen
    setopPc,        \* how far transformSetOperationStmt has come
    setopErr,       \* the error code raised, if any
    \* ---- transformUpdateStmt on one UPDATE
    updateStmt,     \* the UpdateStmt: its SET list
    updQry,         \* the Query under construction
    updPstate,      \* its ParseState: p_next_resno, and modifiedCols of the target
    updPc,          \* how far transformUpdateStmt has come
    updErr,         \* the error code raised, if any
    \* ---- the column loop of transformSetOperationTree on one internal node
    ltargetlist,    \* the non-junk target entries of the left child
    rtargetlist,    \* those of the right child
    colOp,          \* the SetOperationStmt under construction: colTypes, colTypmods
    colTargetlist,  \* the dummy target list handed to the caller
    colPc,          \* how far the loop has come
    colErr,         \* the error code raised, if any
    \* ---- transformSelectStmt on one simple SELECT
    selStmt,        \* the SelectStmt: which clauses it has
    selGrammar,     \* pstate->p_grammar
    ADB,            \* the server was built with the macro ADB
    selTrace,       \* history: the transformers called, in order
    selPc,          \* how far transformSelectStmt has come
    selErr,         \* the error code raised, if any
    \* ---- transformLockingClause on one Query
    lcQry,          \* the Query, with the Queries of its subquery entries
    lcClause,       \* the LockingClause
    lcPc,           \* how far the call has come
    lcErr,          \* the error code raised, if any
    \* ---- transformDeleteStmt / transformUpdateStmt around USING / FROM
    dmlStmt,        \* the DeleteStmt or UpdateStmt
    dmlPstate,      \* its ParseState: length of p_rtable, p_namespace
    resultRelation, \* qry->resultRelation
    nsitem,         \* the local nsitem, as a position in p_namespace
    dmlSeen,        \* history: the clauses transformed and the target's flags then
    dmlPc,          \* how far the transformer has come
    \* ---- the recursion of the set-operation analysis, as a call stack
    recTree,        \* the parse tree, changed in place
    recStack,       \* frames of the calls in progress, innermost last
    recVisits,      \* history: the calls made, each with the clauses of its node
    recPc,          \* running, done or error
    recErr,         \* the error code raised, if any
    \* ---- the inheritance check of INSERT ... SELECT
    target_rte,     \* the range-table entry of the INSERT target
    selectRtable,   \* selectQuery->rtable
    onCoordinator,  \* IS_PGXC_COORDINATOR && !IsConnFromCoord()
    has_to_save_cmd_id,\* qry->has_to_save_cmd_id
    childResult,    \* what is_relation_child returned, NULL before the call
    childPc         \* source, done

lockVars == <<rowMarks, hasForUpdate, applied>>
entryVars == <<stack, overrideStack, pstates, nextPstate, error, lastExit>>
queryVars == <<parseTree, entryPoint, pstate, query, qpc, qerr>>

dispatchVars == <<dtree, dstmt, dresult, dpc>>
insertVars == <<insertStmt, itrace, ipc>>
updateVars == <<updateStmt, updQry, updPstate, updPc, updErr>>
setopVars == <<setopStmt, setopPstate, setopQry, sv, setopPc, setopErr>>
execVars == <<execStmt, IS_PGXC_DATANODE, xc_maintenance_mode, eresult, step, epc, eerr>>
childVars == <<target_rte, selectRtable, onCoordinator, has_to_save_cmd_id, childResult, childPc>>
recVars == <<recTree, recStack, recVisits, recPc, recErr>>
dmlVars == <<dmlStmt, dmlPstate, resultRelation, nsitem, dmlSeen, dmlPc>>
lclauseVars == <<lcQry, lcClause, lcPc, lcErr>>
selectVars == <<selStmt, selGrammar, ADB, selTrace, selPc, selErr>>
columnsVars == <<ltargetlist, rtargetlist, colOp, colTargetlist, colPc, colErr>>

nonLockVars == <<updateVars, setopVars, execVars, entryVars, queryVars, dispatchVars, insertVars, columnsVars, selectVars, lclauseVars, dmlVars, recVars, childVars>>
nonEntryVars == <<updateVars, setopVars, execVars, lockVars, queryVars, dispatchVars, insertVars, columnsVars, selectVars, lclauseVars, dmlVars, recVars, childVars>>
nonQueryVars == <<updateVars, setopVars, execVars, lockVars, entryVars, dispatchVars, insertVars, columnsVars, selectVars, lclauseVars, dmlVars, recVars, childVars>>
nonDispatchVars == <<updateVars, setopVars, execVars, lockVars, entryVars, queryVars, insertVars, columnsVars, selectVars, lclauseVars, dmlVars, recVars, childVars>>
nonInsertVars == <<updateVars, setopVars, lockVars, entryVars, queryVars, dispatchVars, execVars, columnsVars, selectVars, lclauseVars, dmlVars, recVars, childVars>>
nonExecVars == <<updateVars, setopVars, lockVars, entryVars, queryVars, dispatchVars, insertVars, columnsVars, selectVars, lclauseVars, dmlVars, recVars, childVars>>
nonSetopVars == <<updateVars, lockVars, entryVars, queryVars, dispatchVars, insertVars, execVars, columnsVars, selectVars, lclauseVars, dmlVars, recVars, childVars>>
nonUpdateVars == <<lockVars, entryVars, queryVars, dispatchVars, insertVars, execVars, setopVars, columnsVars, selectVars, lclauseVars, dmlVars, recVars, childVars>>
nonColumnsVars == <<lockVars, entryVars, queryVars, dispatchVars, insertVars, updateVars, setopVars, execVars, selectVars, lclauseVars, dmlVars, recVars, childVars>>
nonSelectVars == <<lockVars, entryVars, queryVars, dispatchVars, insertVars, updateVars, setopVars, execVars, columnsVars, lclauseVars, dmlVars, recVars, childVars>>
nonLClauseVars == <<lockVars, entryVars, queryVars, dispatchVars, insertVars, updateVars, setopVars, execVars, selectVars, columnsVars, dmlVars, recVars, childVars>>
nonDmlVars == <<lockVars, entryVars, queryVars, dispatchVars, insertVars, updateVars, setopVars, execVars, lclauseVars, selectVars, columnsVars, recVars, childVars>>
nonRecVars == <<lockVars, entryVars, queryVars, dispatchVars, insertVars, updateVars, setopVars, execVars, dmlVars, lclauseVars, selectVars, columnsVars, childVars>>
nonChildVars == <<lockVars, entryVars, queryVars, dispatchVars, insertVars, updateVars, setopVars, execVars, recVars, dmlVars, lclauseVars, selectVars, columnsVars>>

(***************************************************************************)
(* Bounds                                                                  *)
(***************************************************************************)
MaxRti == 2
MaxLockCalls == 3
MaxDepth == 3          \* nesting of analysis calls
MaxNested == 1         \* nested calls one transformation makes
MaxTables == 3         \* relations of a FROM clause
MaxWhere == 2          \* conjuncts of a WHERE clause
MaxK == 2              \* the largest constant compared with ROWNUM
MaxRows == 2           \* rows of the table a query is evaluated on
MaxSubDepth == 1       \* nesting of sub-SELECTs in FROM
MaxRels == 2           \* relations an INSERT and its SELECTs may name
MaxFrom == 2           \* relations in the FROM clause of a source SELECT
MaxNodes == 2          \* node names of an EXECUTE DIRECT
MaxQueries == 2        \* statements in the text of an EXECUTE DIRECT
MaxCols == 2           \* result columns of a member of a set operation
MaxJunk == 1           \* resjunk entries of a member's target list
MaxSort == 2           \* items of the ORDER BY of a set operation
MaxTargets == 2        \* items of the SET list of an UPDATE
MaxExpand == 2         \* target entries one SET item is transformed into
MaxEntries == 2        \* range-table entries of a Query given a locking clause
MaxNames == 2          \* names in the list of a locking clause
MaxMembers == 3        \* simple SELECTs of a set operation analysed as a call stack
MaxSelectEntries == 2  \* range-table entries of the source SELECT of an INSERT
MaxSubEntries == 1     \* range-table entries of a sub-query nested in that SELECT
MaxUpdJunk == 2        \* resjunk entries of the target list of an UPDATE

(***************************************************************************)
(* Locking resolver                                                        *)
(***************************************************************************)
\* LockClauseStrength, in the order of the enum (weakest first)
LCS_FORKEYSHARE == 0
LCS_FORSHARE == 1
LCS_FORNOKEYUPDATE == 2
LCS_FORUPDATE == 3

LockClauseStrength ==
    {LCS_FORKEYSHARE, LCS_FORSHARE, LCS_FORNOKEYUPDATE, LCS_FORUPDATE}

Max(a, b) == IF a >= b THEN a ELSE b

RowMarkClause(rti, strength, noWait, pushedDown) ==
    [rti |-> rti, strength |-> strength, noWait |-> noWait,
     pushedDown |-> pushedDown]

\* get_parse_rowmark: position of the first row-mark for rtindex, 0 if none
get_parse_rowmark(marks, rtindex) ==
    IF \E i \in 1..Len(marks) : marks[i].rti = rtindex
    THEN CHOOSE i \in 1..Len(marks) :
            /\ marks[i].rti = rtindex
            /\ \A j \in 1..(i - 1) : marks[j].rti # rtindex
    ELSE 0

MergeRowMark_LastWins(rc, strength, noWait, pushedDown) ==
    [rc EXCEPT !.strength = strength,
               !.noWait = noWait,
               !.pushedDown = pushedDown]

\* the merge into a pre-existing entry
MergeRowMark(rc, strength, noWait, pushedDown) ==
    [rc EXCEPT !.strength = Max(rc.strength, strength),
               !.noWait = rc.noWait \/ noWait,
               !.pushedDown = rc.pushedDown /\ pushedDown]

ExplicitSetsHasForUpdate_OnlyNew(old, isNew, pushedDown) ==
    IF ~pushedDown /\ isNew THEN TRUE ELSE old

\* "If it's an explicit clause, make sure hasForUpdate gets set"
ExplicitSetsHasForUpdate(old, isNew, pushedDown) ==
    IF ~pushedDown THEN TRUE ELSE old

\* applyLockingClause as a function of the Query fields it reads and writes
applyLockingClause(marks, hfu, rtindex, strength, noWait, pushedDown) ==
    LET i == get_parse_rowmark(marks, rtindex)
        h == ExplicitSetsHasForUpdate(hfu, i = 0, pushedDown)
    IN  IF i # 0
        THEN [rowMarks |-> [marks EXCEPT ![i] =
                              MergeRowMark(marks[i], strength, noWait, pushedDown)],
              hasForUpdate |-> h]
        ELSE [rowMarks |-> Append(marks,
                              RowMarkClause(rtindex, strength, noWait, pushedDown)),
              hasForUpdate |-> h]

LockInit ==
    /\ rowMarks = <<>>
    /\ hasForUpdate = FALSE
    /\ applied = {}

LockIdle ==
    /\ rowMarks = <<>>
    /\ hasForUpdate = FALSE
    /\ applied = {}

ApplyLockingClause ==
    \E rtindex \in 1..MaxRti, strength \in LockClauseStrength,
       noWait \in BOOLEAN, pushedDown \in BOOLEAN :
        LET call == RowMarkClause(rtindex, strength, noWait, pushedDown)
            res == applyLockingClause(rowMarks, hasForUpdate,
                                      rtindex, strength, noWait, pushedDown)
        IN  /\ Cardinality(applied \cup {call}) <= MaxLockCalls
            /\ rowMarks' = res.rowMarks
            /\ hasForUpdate' = res.hasForUpdate
            /\ applied' = applied \cup {call}
            /\ UNCHANGED nonLockVars

(***************************************************************************)
(* Entry points: parse_analyze_for_gram, parse_analyze_varparams_for_gram, *)
(* parse_sub_analyze.  A frame is one call in progress; pc is the          *)
(* statement of the function the call is at.                               *)
(***************************************************************************)
PARSE_GRAM_POSTGRES == "PARSE_GRAM_POSTGRES"
PARSE_GRAM_ORACLE == "PARSE_GRAM_ORACLE"
ParseGrammar == {PARSE_GRAM_POSTGRES, PARSE_GRAM_ORACLE}

ForGram == "parse_analyze_for_gram"
VarparamsForGram == "parse_analyze_varparams_for_gram"
SubAnalyze == "parse_sub_analyze"
GramEntries == {ForGram, VarparamsForGram}

NoExit == [fn |-> "none"]

Frame(fn, grammar, depth0) ==
    [fn |-> fn, grammar |-> grammar, pc |-> "make_parsestate", pstate |-> 0,
     depth0 |-> depth0, pushes |-> 0, pops |-> 0, ncalls |-> 0]

Top == stack[Len(stack)]
SetTop(f) == [stack EXCEPT ![Len(stack)] = f]
PopFrame == SubSeq(stack, 1, Len(stack) - 1)

\* the statements between PG_TRY() and PG_CATCH() of the two *_for_gram
\* functions, in order
TryBody(fn) ==
    IF fn = ForGram
    THEN <<"params", "transform", "check_joinon", "rewrite_rownum", "hook", "free">>
    ELSE <<"params", "transform", "check_params", "hook", "free">>

\* the statement after pc in the function fn
NextPc(fn, pc) ==
    IF fn = SubAnalyze
    THEN CASE pc = "make_parsestate" -> "transform"
           [] pc = "transform" -> "free"
           [] pc = "free" -> "return"
    ELSE CASE pc = "make_parsestate" -> "push"
           [] pc = "push" -> "params"
           [] pc = "free" -> "pop"
           [] pc = "pop" -> "return"
           [] OTHER ->
                LET body == TryBody(fn)
                    i == CHOOSE k \in 1..Len(body) : body[k] = pc
                IN  body[i + 1]

InTry(f) == f.fn \in GramEntries /\ \E k \in 1..Len(TryBody(f.fn)) : TryBody(f.fn)[k] = f.pc

PushOverrideSearchPathForGrammar(stk, grammar) == Append(stk, grammar)

PopOverrideSearchPath(stk) == SubSeq(stk, 1, Len(stk) - 1)

CatchBlock_NoPop(stk) == stk

\* PG_CATCH(); { PopOverrideSearchPath(); PG_RE_THROW(); }
CatchBlock(stk) == PopOverrideSearchPath(stk)

free_parsestate_Leak(live, id) == live

\* free_parsestate: the state is released
free_parsestate(live, id) == live \ {id}

ExitRecord(f, outcome, depthAfter) ==
    [fn |-> f.fn, outcome |-> outcome, pstate |-> f.pstate,
     depth0 |-> f.depth0, depthAfter |-> depthAfter,
     pushes |-> f.pushes, pops |-> f.pops]

EntryInit ==
    /\ stack = <<>>
    /\ overrideStack \in {<<>>, <<"caller">>}
    /\ pstates = {}
    /\ nextPstate = 1
    /\ error = FALSE
    /\ lastExit = NoExit

EntryIdle ==
    /\ stack = <<>>
    /\ overrideStack = <<>>
    /\ pstates = {}
    /\ nextPstate = 1
    /\ error = FALSE
    /\ lastExit = NoExit

Running == stack # <<>> /\ ~error

\* a client calls parse_analyze[_varparams][_for_gram]
CallEntry ==
    /\ stack = <<>> /\ ~error /\ lastExit = NoExit
    /\ \E fn \in GramEntries, grammar \in ParseGrammar :
          stack' = <<Frame(fn, grammar, Len(overrideStack))>>
    /\ UNCHANGED <<overrideStack, pstates, nextPstate, error, lastExit>>
    /\ UNCHANGED nonEntryVars

\* ParseState *pstate = make_parsestate(parent)
MakeParsestate ==
    /\ Running /\ Top.pc = "make_parsestate"
    /\ stack' = SetTop([Top EXCEPT !.pstate = nextPstate,
                                   !.pc = NextPc(Top.fn, "make_parsestate")])
    /\ pstates' = pstates \cup {nextPstate}
    /\ nextPstate' = nextPstate + 1
    /\ UNCHANGED <<overrideStack, error, lastExit>>
    /\ UNCHANGED nonEntryVars

\* PushOverrideSearchPathForGrammar(grammar), before PG_TRY()
PushOverride ==
    /\ Running /\ Top.pc = "push"
    /\ overrideStack' = PushOverrideSearchPathForGrammar(overrideStack, Top.grammar)
    /\ stack' = SetTop([Top EXCEPT !.pushes = @ + 1, !.pc = NextPc(Top.fn, "push")])
    /\ UNCHANGED <<pstates, nextPstate, error, lastExit>>
    /\ UNCHANGED nonEntryVars

\* parse_fixed_parameters / parse_variable_parameters
ParseParameters ==
    /\ Running /\ Top.pc = "params"
    /\ stack' = SetTop([Top EXCEPT !.pc = NextPc(Top.fn, "params")])
    /\ UNCHANGED <<overrideStack, pstates, nextPstate, error, lastExit>>
    /\ UNCHANGED nonEntryVars

\* the transformation reaches a sub-statement: parse_sub_analyze(...)
TransformCallsSubAnalyze ==
    /\ Running /\ Top.pc = "transform"
    /\ Len(stack) < MaxDepth /\ Top.ncalls < MaxNested
    /\ stack' = Append(SetTop([Top EXCEPT !.ncalls = @ + 1]),
                       Frame(SubAnalyze, Top.grammar, Len(overrideStack)))
    /\ UNCHANGED <<overrideStack, pstates, nextPstate, error, lastExit>>
    /\ UNCHANGED nonEntryVars

\* transformExecDirectStmt: result = parse_analyze(parsetree, query, NULL, 0)
TransformCallsParseAnalyze ==
    /\ Running /\ Top.pc = "transform"
    /\ Len(stack) < MaxDepth /\ Top.ncalls < MaxNested
    /\ stack' = Append(SetTop([Top EXCEPT !.ncalls = @ + 1]),
                       Frame(ForGram, PARSE_GRAM_POSTGRES, Len(overrideStack)))
    /\ UNCHANGED <<overrideStack, pstates, nextPstate, error, lastExit>>
    /\ UNCHANGED nonEntryVars

\* query = transformTopLevelStmt(pstate, parseTree) / transformStmt returns
TransformReturns ==
    /\ Running /\ Top.pc = "transform"
    /\ stack' = SetTop([Top EXCEPT !.pc = NextPc(Top.fn, "transform")])
    /\ UNCHANGED <<overrideStack, pstates, nextPstate, error, lastExit>>
    /\ UNCHANGED nonEntryVars

\* check_joinon_column_join, rewrite_rownum_query_enum,
\* check_variable_parameters, post_parse_analyze_hook: one statement each
PostTransformStep ==
    /\ Running
    /\ Top.pc \in {"check_joinon", "rewrite_rownum", "check_params", "hook"}
    /\ stack' = SetTop([Top EXCEPT !.pc = NextPc(Top.fn, Top.pc)])
    /\ UNCHANGED <<overrideStack, pstates, nextPstate, error, lastExit>>
    /\ UNCHANGED nonEntryVars

\* free_parsestate(pstate)
FreeParsestate ==
    /\ Running /\ Top.pc = "free"
    /\ pstates' = free_parsestate(pstates, Top.pstate)
    /\ stack' = SetTop([Top EXCEPT !.pc = NextPc(Top.fn, "free")])
    /\ UNCHANGED <<overrideStack, nextPstate, error, lastExit>>
    /\ UNCHANGED nonEntryVars

\* PopOverrideSearchPath() after PG_END_TRY()
PopOverride ==
    /\ Running /\ Top.pc = "pop"
    /\ overrideStack' = PopOverrideSearchPath(overrideStack)
    /\ stack' = SetTop([Top EXCEPT !.pops = @ + 1, !.pc = NextPc(Top.fn, "pop")])
    /\ UNCHANGED <<pstates, nextPstate, error, lastExit>>
    /\ UNCHANGED nonEntryVars

\* return query
Return ==
    /\ Running /\ Top.pc = "return"
    /\ lastExit' = ExitRecord(Top, "return", Len(overrideStack))
    /\ stack' = PopFrame
    /\ UNCHANGED <<overrideStack, pstates, nextPstate, error>>
    /\ UNCHANGED nonEntryVars

\* the statement the call is at raises (ereport(ERROR)): inside PG_TRY the
\* control goes to PG_CATCH, elsewhere the call is left at once
Raise ==
    /\ Running
    /\ Top.pc \in {"make_parsestate", "push", "params", "transform",
                   "check_joinon", "rewrite_rownum", "check_params", "hook", "free"}
    /\ IF InTry(Top)
       THEN /\ stack' = SetTop([Top EXCEPT !.pc = "catch"])
            /\ UNCHANGED <<error, lastExit>>
       ELSE /\ stack' = PopFrame
            /\ error' = TRUE
            /\ lastExit' = ExitRecord(Top, "error", Len(overrideStack))
    /\ UNCHANGED <<overrideStack, pstates, nextPstate>>
    /\ UNCHANGED nonEntryVars

\* an error raised by a nested call arrives in the caller, which is inside
\* its transformation
Propagate ==
    /\ stack # <<>> /\ error
    /\ IF InTry(Top)
       THEN /\ stack' = SetTop([Top EXCEPT !.pc = "catch"])
            /\ error' = FALSE
            /\ UNCHANGED lastExit
       ELSE /\ stack' = PopFrame
            /\ lastExit' = ExitRecord(Top, "error", Len(overrideStack))
            /\ UNCHANGED error
    /\ UNCHANGED <<overrideStack, pstates, nextPstate>>
    /\ UNCHANGED nonEntryVars

\* PG_CATCH(); { PopOverrideSearchPath(); PG_RE_THROW(); } PG_END_TRY();
Catch ==
    /\ Running /\ Top.pc = "catch"
    /\ overrideStack' = CatchBlock(overrideStack)
    /\ lastExit' = ExitRecord([Top EXCEPT !.pops = @ + Len(overrideStack) - Len(overrideStack')],
                              "error", Len(overrideStack'))
    /\ stack' = PopFrame
    /\ error' = TRUE
    /\ UNCHANGED <<pstates, nextPstate>>
    /\ UNCHANGED nonEntryVars

EntryNext ==
    \/ CallEntry
    \/ MakeParsestate
    \/ PushOverride
    \/ ParseParameters
    \/ TransformCallsSubAnalyze
    \/ TransformCallsParseAnalyze
    \/ TransformReturns
    \/ PostTransformStep
    \/ FreeParsestate
    \/ PopOverride
    \/ Return
    \/ Raise
    \/ Propagate
    \/ Catch


(***************************************************************************)
(* Expressions and join trees.                                             *)
(*                                                                         *)
(* A qualifier is a sequence of conjuncts (the AND-list canonicalize_qual  *)
(* gives; <<>> is the NULL qualifier, one element a bare predicate).  A    *)
(* conjunct is a binary OpExpr / FuncExpr over leaves: Var, ColumnRefJoin  *)
(* (the (+) marker around a Var), RownumExpr, Const.                       *)
(***************************************************************************)
NULL == [tag |-> "NULL"]

Var(varno) == [tag |-> "Var", varno |-> varno]
ColumnRefJoin(varno) == [tag |-> "ColumnRefJoin", varno |-> varno]
RownumExpr == [tag |-> "RownumExpr"]
Const(consttype, val) ==
    [tag |-> "Const", consttype |-> consttype, constisnull |-> FALSE, val |-> val]
NullConst(consttype) ==
    [tag |-> "Const", consttype |-> consttype, constisnull |-> TRUE, val |-> 0]

OpExpr(opname, l, r) == [tag |-> "OpExpr", opname |-> opname, args |-> <<l, r>>]
\* a FuncExpr over the function of operator opname ("" when pg_operator has
\* no operator for the function)
FuncExpr(opname, l, r) == [tag |-> "FuncExpr", opname |-> opname, args |-> <<l, r>>]

RangeTblRef(rtindex) == [tag |-> "RangeTblRef", rtindex |-> rtindex]
JoinExpr(jointype, larg, rarg, quals, rtindex) ==
    [tag |-> "JoinExpr", jointype |-> jointype, larg |-> larg, rarg |-> rarg,
     quals |-> quals, rtindex |-> rtindex]

JOIN_INNER == "JOIN_INNER"
JOIN_LEFT == "JOIN_LEFT"
JOIN_RIGHT == "JOIN_RIGHT"
JOIN_FULL == "JOIN_FULL"

SYNTAX_ERROR == "ERRCODE_SYNTAX_ERROR"
INTERNAL_ERROR == "ERRCODE_INTERNAL_ERROR"
NoError == "none"

RECURSIVE SeqConcat(_)
SeqConcat(ss) == IF ss = <<>> THEN <<>> ELSE Head(ss) \o SeqConcat(Tail(ss))

RemoveAt(seq, i) == SubSeq(seq, 1, i - 1) \o SubSeq(seq, i + 1, Len(seq))

\* the leaves of a qualifier in the order expression_tree_walker meets them
Leaves(quals) == SeqConcat([i \in 1..Len(quals) |-> quals[i].args])

\* have_ora_column_join
have_ora_column_join(quals) ==
    \E i \in 1..Len(quals) : \E k \in 1..2 : quals[i].args[k].tag = "ColumnRefJoin"

\* contain_rownum
contain_rownum(quals) ==
    \E i \in 1..Len(quals) : \E k \in 1..2 : quals[i].args[k].tag = "RownumExpr"

StripLeaf(leaf) == IF leaf.tag = "ColumnRefJoin" THEN Var(leaf.varno) ELSE leaf

\* remove_column_join_expr: every ColumnRefJoin gives way to its Var
remove_column_join_expr(quals) ==
    [i \in 1..Len(quals) |->
        [quals[i] EXCEPT !.args = <<StripLeaf(@[1]), StripLeaf(@[2])>>]]

(***************************************************************************)
(* get_ora_column_join: the join a predicate describes                     *)
(***************************************************************************)
JoinExprInfo(expr, type, lrtindex, rrtindex, err) ==
    [expr |-> expr, type |-> type, lrtindex |-> lrtindex, rrtindex |-> rrtindex,
     err |-> err]

\* one node visited by get_ora_column_join_walker
WalkLeaf(info, leaf) ==
    IF info.err # NoError THEN info
    ELSE IF leaf.tag = "ColumnRefJoin"
    THEN IF info.rrtindex = 0
         THEN [info EXCEPT !.type = JOIN_LEFT, !.rrtindex = leaf.varno]
         ELSE IF info.rrtindex # leaf.varno
              THEN [info EXCEPT !.err = SYNTAX_ERROR]
              ELSE info
    ELSE IF leaf.tag = "Var"
    THEN IF info.lrtindex = leaf.varno \/ info.rrtindex = leaf.varno
         THEN info
         ELSE IF info.lrtindex = 0
              THEN [info EXCEPT !.lrtindex = leaf.varno]
              ELSE IF info.rrtindex = 0 /\ info.type = JOIN_INNER
                   THEN [info EXCEPT !.rrtindex = leaf.varno]
                   ELSE [info EXCEPT !.err = SYNTAX_ERROR]
    ELSE info

RECURSIVE WalkLeaves(_, _)
WalkLeaves(info, leaves) ==
    IF leaves = <<>> THEN info
    ELSE WalkLeaves(WalkLeaf(info, Head(leaves)), Tail(leaves))

get_ora_column_join(expr) ==
    WalkLeaves(JoinExprInfo(expr, JOIN_INNER, 0, 0, NoError), Leaves(expr))

SameTables(a, b) ==
    /\ a.type = b.type
    /\ a.lrtindex = b.lrtindex
    /\ a.rrtindex = b.rrtindex

FirstSameTables(result, jinfo2) ==
    CHOOSE k \in 1..Len(result) :
        /\ SameTables(result[k], jinfo2)
        /\ \A j \in 1..(k - 1) : ~SameTables(result[j], jinfo2)

\* get_join_qual_exprs, second loop: a predicate without a marker is
\* combined with the first entry over the same tables, else appended
CombineOne(result, jinfo2) ==
    IF \E k \in 1..Len(result) : SameTables(result[k], jinfo2)
    THEN [result EXCEPT ![FirstSameTables(result, jinfo2)].expr = @ \o jinfo2.expr]
    ELSE Append(result, jinfo2)

RECURSIVE CombineQuals(_, _)
CombineNext(result, rest, jinfo2) ==
    IF jinfo2.err # NoError
    THEN [err |-> jinfo2.err, list |-> result]
    ELSE CombineQuals(CombineOne(result, jinfo2), Tail(rest))

CombineQuals(result, rest) ==
    IF rest = <<>> THEN [err |-> NoError, list |-> result]
    ELSE CombineNext(result, rest, get_ora_column_join(<<Head(rest)>>))

HasMarker(e) == have_ora_column_join(<<e>>)
HasNoMarker(e) == ~have_ora_column_join(<<e>>)

MarkedInfos(marked) == [i \in 1..Len(marked) |-> get_ora_column_join(<<marked[i]>>)]

CombineAfterFirst(first, plain) ==
    IF \E i \in 1..Len(first) : first[i].err # NoError
    THEN [err |-> SYNTAX_ERROR, list |-> <<>>]
    ELSE CombineQuals(first, plain)

\* get_join_qual_exprs: the list of JoinExprInfo of a qualifier
get_join_qual_exprs(quals) ==
    CombineAfterFirst(MarkedInfos(SelectSeq(quals, HasMarker)),
                      SelectSeq(quals, HasNoMarker))

(***************************************************************************)
(* pullup_rel_for_join                                                     *)
(***************************************************************************)
PullupRelForJoinContext(larg, rarg) == [larg |-> larg, rarg |-> rarg]
EmptyContext == PullupRelForJoinContext(NULL, NULL)

\* combin_pullup_context: dest after taking what src found
combin_pullup_context(dest, src) ==
    [larg |-> IF src.larg # NULL THEN src.larg ELSE dest.larg,
     rarg |-> IF src.rarg # NULL THEN src.rarg ELSE dest.rarg]

Found(src) == src.larg # NULL \/ src.rarg # NULL
FoundAll(ctx) == ctx.larg # NULL /\ ctx.rarg # NULL

PullupResult(ret, node, context, err) ==
    [ret |-> ret, node |-> node, context |-> context, err |-> err]

\* the join-type test made before a predicate is fused into a JoinExpr
JoinTypeConflict(jinfo, join) ==
    /\ jinfo.type = JOIN_LEFT
    /\ join.jointype # JOIN_LEFT
    /\ join.jointype # JOIN_RIGHT

RECURSIVE pullup_rel_for_join(_, _, _)

\* the JoinExpr branch once both sides have been searched
PullupJoinFinish(node, jinfo, c2) ==
    IF FoundAll(c2)
    THEN IF JoinTypeConflict(jinfo, node)
         THEN PullupResult(FALSE, node, c2, SYNTAX_ERROR)
         ELSE PullupResult(TRUE, [node EXCEPT !.quals = @ \o jinfo.expr], c2, NoError)
    ELSE \* release [lr]arg to this join node
         IF c2.larg # NULL
         THEN PullupResult(FALSE, node, [c2 EXCEPT !.larg = node], NoError)
         ELSE IF c2.rarg # NULL
         THEN PullupResult(FALSE, node, [c2 EXCEPT !.rarg = node], NoError)
         ELSE PullupResult(FALSE, node, c2, NoError)

\* the JoinExpr branch after the search r2 of join->rarg
PullupJoinAfterRarg(node, jinfo, context, c1, r2) ==
    IF r2.err # NoError THEN PullupResult(FALSE, node, context, r2.err)
    ELSE IF r2.ret
    THEN PullupResult(TRUE, [node EXCEPT !.rarg = r2.node], context, NoError)
    ELSE PullupJoinFinish(node, jinfo, combin_pullup_context(c1, r2.context))

PullupJoinRarg(node, jinfo, context, c1) ==
    IF FoundAll(c1) THEN PullupJoinFinish(node, jinfo, c1)
    ELSE PullupJoinAfterRarg(node, jinfo, context, c1,
                             pullup_rel_for_join(node.rarg, jinfo, EmptyContext))

\* the JoinExpr branch after the search r1 of join->larg
PullupJoinAfterLarg(node, jinfo, context, r1) ==
    IF r1.err # NoError THEN PullupResult(FALSE, node, context, r1.err)
    ELSE IF r1.ret
    THEN PullupResult(TRUE, [node EXCEPT !.larg = r1.node], context, NoError)
    ELSE PullupJoinRarg(node, jinfo, context,
                        combin_pullup_context(context, r1.context))

\* pullup_rel_for_join on a RangeTblRef or a JoinExpr
pullup_rel_for_join(node, jinfo, context) ==
    IF node.tag = "RangeTblRef"
    THEN IF node.rtindex = jinfo.lrtindex
         THEN PullupResult(FALSE, node, [context EXCEPT !.larg = node], NoError)
         ELSE IF node.rtindex = jinfo.rrtindex
              THEN PullupResult(FALSE, node, [context EXCEPT !.rarg = node], NoError)
              ELSE PullupResult(FALSE, node, context, NoError)
    ELSE PullupJoinAfterLarg(node, jinfo, context,
                             pullup_rel_for_join(node.larg, jinfo, EmptyContext))

PositionOf(fromlist, item) == CHOOSE k \in 1..Len(fromlist) : fromlist[k] = item

\* the loop of pullup_rel_for_join over from->fromlist: todo are the items
\* not visited yet, fromlist the list as the deletions have left it
RECURSIVE PullupFromLoop(_, _, _, _)

\* one item of the loop, after its search r
PullupFromItem(todo, fromlist, jinfo, context, pos, r) ==
    IF r.err # NoError THEN PullupResult(FALSE, fromlist, context, r.err)
    ELSE IF r.ret
    THEN PullupResult(TRUE, [fromlist EXCEPT ![pos] = r.node], context, NoError)
    ELSE IF Found(r.context)
    THEN PullupFromLoop(Tail(todo), RemoveAt(fromlist, pos), jinfo,
                        combin_pullup_context(context, r.context))
    ELSE PullupFromLoop(Tail(todo), fromlist, jinfo, context)

PullupFromLoop(todo, fromlist, jinfo, context) ==
    IF todo = <<>> \/ FoundAll(context)
    THEN PullupResult(FALSE, fromlist, context, NoError)
    ELSE PullupFromItem(todo, fromlist, jinfo, context,
                        PositionOf(fromlist, Head(todo)),
                        pullup_rel_for_join(Head(todo), jinfo, EmptyContext))

PullupFromFinish_NoReattach(jinfo, r) ==
    IF r.err # NoError \/ r.ret THEN r
    ELSE IF ~FoundAll(r.context) THEN r
    ELSE PullupResult(TRUE, r.node, r.context, NoError)

\* after the loop: the new JoinExpr goes to the end of from->fromlist
PullupFromFinish(jinfo, r) ==
    IF r.err # NoError \/ r.ret THEN r
    ELSE IF ~FoundAll(r.context) THEN r
    ELSE PullupResult(TRUE,
            Append(r.node, JoinExpr(jinfo.type, r.context.larg, r.context.rarg,
                                    jinfo.expr, 0)),
            r.context, NoError)

\* pullup_rel_for_join on the FromExpr: .node is the new from->fromlist
pullup_rel_for_join_from(fromlist, jinfo) ==
    PullupFromFinish(jinfo, PullupFromLoop(fromlist, fromlist, jinfo, EmptyContext))

(***************************************************************************)
(* check_joinon_column_join                                                *)
(***************************************************************************)
\* the direction test of a marked ON clause against the join's two sides
JoinonDirectionFailed(join, jinfo) ==
    \/ /\ join.larg.tag = "RangeTblRef"
       /\ \/ join.larg.rtindex = jinfo.lrtindex /\ join.jointype # JOIN_LEFT
          \/ join.larg.rtindex = jinfo.rrtindex /\ join.jointype # JOIN_RIGHT
    \/ /\ join.rarg.tag = "RangeTblRef"
       /\ \/ join.rarg.rtindex = jinfo.lrtindex /\ join.jointype # JOIN_RIGHT
          \/ join.rarg.rtindex = jinfo.rrtindex /\ join.jointype # JOIN_LEFT

JoinonResult(err, node) == [err |-> err, node |-> node]

\* the JoinExpr branch on the ON clause, jinfo being what it describes
JoinonQuals(join, jinfo) ==
    IF ~have_ora_column_join(join.quals) THEN JoinonResult(NoError, join)
    ELSE IF jinfo.err # NoError THEN JoinonResult(jinfo.err, join)
    ELSE IF jinfo.type # JOIN_INNER /\ JoinonDirectionFailed(join, jinfo)
    THEN JoinonResult(SYNTAX_ERROR, join)
    ELSE JoinonResult(NoError, [join EXCEPT !.quals = remove_column_join_expr(@)])

\* the JoinExpr branch after the checks a and b of its two sides
JoinonSides(node, a, b) ==
    IF a.err # NoError THEN JoinonResult(a.err, node)
    ELSE IF b.err # NoError THEN JoinonResult(b.err, node)
    ELSE JoinonQuals([node EXCEPT !.larg = a.node, !.rarg = b.node],
                     get_ora_column_join(node.quals))

\* check_joinon_column_join on a RangeTblRef or a JoinExpr
RECURSIVE check_joinon_column_join(_)
check_joinon_column_join(node) ==
    IF node.tag = "RangeTblRef" THEN JoinonResult(NoError, node)
    ELSE JoinonSides(node, check_joinon_column_join(node.larg),
                     check_joinon_column_join(node.rarg))

FirstError(rs) ==
    rs[CHOOSE i \in 1..Len(rs) :
          /\ rs[i].err # NoError
          /\ \A j \in 1..(i - 1) : rs[j].err = NoError].err

JoinonFromItems(jointree, rs) ==
    IF \E i \in 1..Len(rs) : rs[i].err # NoError
    THEN JoinonResult(FirstError(rs), jointree)
    ELSE JoinonResult(NoError,
            [fromlist |-> [i \in 1..Len(rs) |-> rs[i].node],
             quals |-> IF have_ora_column_join(jointree.quals)
                       THEN remove_column_join_expr(jointree.quals)
                       ELSE jointree.quals])

\* check_joinon_column_join on the FromExpr jointree = [fromlist, quals]
check_joinon_column_join_from(jointree) ==
    JoinonFromItems(jointree,
                    [i \in 1..Len(jointree.fromlist) |->
                        check_joinon_column_join(jointree.fromlist[i])])

(***************************************************************************)
(* The parse state and analyze_new_join                                    *)
(***************************************************************************)
ParseNamespaceItem(rte, rel_visible, cols_visible) ==
    [p_rte |-> rte, p_rel_visible |-> rel_visible, p_cols_visible |-> cols_visible,
     p_lateral_only |-> FALSE, p_lateral_ok |-> TRUE]

\* find_namespace_item_for_rte: the item of rte, the last one when none is
find_namespace_item_for_rte(namespace, rte) ==
    IF \E k \in 1..Len(namespace) : namespace[k].p_rte = rte
    THEN <<namespace[CHOOSE k \in 1..Len(namespace) :
                        /\ namespace[k].p_rte = rte
                        /\ \A j \in 1..(k - 1) : namespace[j].p_rte # rte]>>
    ELSE <<namespace[Len(namespace)]>>

HideColumns(namelist) ==
    [k \in 1..Len(namelist) |-> [namelist[k] EXCEPT !.p_cols_visible = FALSE]]

LinkJoinExpr_NoPadding(joinexprs, rtindex) == Append(joinexprs, rtindex)

\* p_joinexprs after the link to the join of range-table index rtindex
LinkJoinExpr(joinexprs, rtindex) ==
    joinexprs \o [k \in 1..(rtindex - 1 - Len(joinexprs)) |-> 0] \o <<rtindex>>

AnalyzeResult(ps, node, rtindex, namelist) ==
    [pstate |-> ps, node |-> node, rtindex |-> rtindex, namelist |-> namelist]

\* the new JoinExpr after its two sides a and b: its range-table entry, its
\* link in p_joinexprs and its namespace item
AnalyzeNewJoinExpr(node, a, b, rtindex) ==
    AnalyzeResult(
        [b.pstate EXCEPT !.p_rtable = Append(@, "RTE_JOIN"),
                         !.p_joinexprs = LinkJoinExpr(@, rtindex)],
        [node EXCEPT !.larg = a.node, !.rarg = b.node, !.rtindex = rtindex],
        rtindex,
        Append(HideColumns(a.namelist \o b.namelist),
               ParseNamespaceItem(rtindex, FALSE, TRUE)))

\* analyze_new_join on a RangeTblRef or a JoinExpr; namespace is
\* pstate->p_namespace as transformFromClause left it
RECURSIVE analyze_new_join(_, _, _)

AnalyzeRarg(namespace, node, a, b) ==
    AnalyzeNewJoinExpr(node, a, b, Len(b.pstate.p_rtable) + 1)

AnalyzeLarg(namespace, node, a) ==
    AnalyzeRarg(namespace, node, a, analyze_new_join(a.pstate, namespace, node.rarg))

analyze_new_join(ps, namespace, node) ==
    IF node.tag = "RangeTblRef" \/ node.rtindex # 0
    THEN AnalyzeResult(ps, node, node.rtindex,
                       find_namespace_item_for_rte(namespace, node.rtindex))
    ELSE AnalyzeLarg(namespace, node, analyze_new_join(ps, namespace, node.larg))

\* analyze_new_join on the FromExpr: item after item
RECURSIVE analyze_new_join_from(_, _, _, _, _)

AnalyzeFromItem(namespace, todo, done, namelist, a) ==
    analyze_new_join_from(a.pstate, namespace, Tail(todo),
                          Append(done, a.node), namelist \o a.namelist)

analyze_new_join_from(ps, namespace, todo, done, namelist) ==
    IF todo = <<>> THEN AnalyzeResult(ps, done, 0, namelist)
    ELSE AnalyzeFromItem(namespace, todo, done, namelist,
                         analyze_new_join(ps, namespace, Head(todo)))

(***************************************************************************)
(* transformFromAndWhere                                                   *)
(***************************************************************************)
FromAndWhereResult(err, ps, quals) ==
    [err |-> err, pstate |-> ps, quals |-> quals]

PullupAllResult(err, fromlist, quals) ==
    [err |-> err, fromlist |-> fromlist, quals |-> quals]

StripInfo_KeepMarkers(jinfo) == jinfo

\* jinfo->expr = remove_column_join_expr(jinfo->expr)
StripInfo(jinfo) == [jinfo EXCEPT !.expr = remove_column_join_expr(@)]

\* the loop of transformFromAndWhere over the JoinExprInfo list: kept is
\* what stays in WHERE
RECURSIVE PullupAll(_, _, _)

\* one two-table entry, after pullup_rel_for_join has returned r
PullupOne(jinfos, fromlist, kept, r) ==
    IF r.err # NoError THEN PullupAllResult(r.err, fromlist, kept)
    ELSE IF ~r.ret THEN PullupAllResult(INTERNAL_ERROR, fromlist, kept)
    ELSE PullupAll(Tail(jinfos), r.node, kept)

PullupEntry(jinfos, fromlist, kept, jinfo) ==
    IF jinfo.lrtindex = 0 \/ jinfo.rrtindex = 0
    THEN PullupAll(Tail(jinfos), fromlist, kept \o jinfo.expr)
    ELSE PullupOne(jinfos, fromlist, kept, pullup_rel_for_join_from(fromlist, jinfo))

PullupAll(jinfos, fromlist, kept) ==
    IF jinfos = <<>> THEN PullupAllResult(NoError, fromlist, kept)
    ELSE PullupEntry(jinfos, fromlist, kept, StripInfo(Head(jinfos)))

\* the end of transformFromAndWhere: the namespace is saved, the new joins
\* are analysed, p_namespace and p_joinlist replaced
FromAndWhereFinish(ps, quals, a) ==
    FromAndWhereResult(NoError,
        [a.pstate EXCEPT !.p_save_namespace = ps.p_namespace,
                         !.p_namespace = a.namelist,
                         !.p_joinlist = a.node],
        quals)

FromAndWherePulled(ps, quals, p) ==
    IF p.err # NoError THEN FromAndWhereResult(p.err, ps, quals)
    ELSE FromAndWhereFinish(ps, p.quals,
            analyze_new_join_from(ps, ps.p_namespace, p.fromlist, <<>>, <<>>))

FromAndWhereInfos(ps, quals, qual_list) ==
    IF qual_list.err # NoError THEN FromAndWhereResult(qual_list.err, ps, quals)
    ELSE FromAndWherePulled(ps, quals,
                            PullupAll(qual_list.list, ps.p_joinlist, <<>>))

transformFromAndWhere(ps, quals) ==
    IF ps.p_joinlist = <<>> \/ ~have_ora_column_join(quals)
    THEN FromAndWhereResult(NoError, ps, quals)
    ELSE IF Len(ps.p_joinlist) = 1
    THEN FromAndWhereResult(NoError, ps, remove_column_join_expr(quals))
    ELSE FromAndWhereInfos(ps, quals, get_join_qual_exprs(quals))

(***************************************************************************)
(* rewrite_rownum_query                                                    *)
(***************************************************************************)
INT8OID == "INT8OID"
INT4OID == "INT4OID"
INT2OID == "INT2OID"
NUMERICOID == "NUMERICOID"

\* a call of a volatile function, as an operand
MutableFunc == [tag |-> "MutableFunc"]

contain_mutable_functions(node) == node.tag = "MutableFunc"

make_int8_const(value) == Const(INT8OID, value)

\* const_get_int64
const_get_int64(expr) ==
    IF expr.tag # "Const" THEN [ok |-> FALSE, val |-> 0]
    ELSE IF expr.constisnull THEN [ok |-> FALSE, val |-> 0]
    ELSE IF expr.consttype \in {INT8OID, INT4OID, INT2OID}
         THEN [ok |-> TRUE, val |-> expr.val]
         ELSE [ok |-> FALSE, val |-> 0]

\* get_commutator by operator name; "" is InvalidOid
get_commutator(opname) ==
    CASE opname = "<" -> ">"
      [] opname = "<=" -> ">="
      [] opname = ">" -> "<"
      [] opname = ">=" -> "<="
      [] opname = "=" -> "="
      [] opname = "<>" -> "<>"
      [] OTHER -> ""

\* make_op2 of "-" over r and the int8 constant 1
MinusOne(r) == OpExpr("-", r, make_int8_const(1))

RownumScan(limitCount, hints, outcome) ==
    [limitCount |-> limitCount, hints |-> hints, outcome |-> outcome]

\* one conjunct holding ROWNUM, met as number i by the loop of
\* rewrite_rownum_query
RownumStep(st, expr, i) ==
    LET l0 == expr.args[1]
        r0 == expr.args[2]
        swap == r0.tag = "RownumExpr"
        opname == IF swap THEN get_commutator(expr.opname) ELSE expr.opname
        l == IF swap THEN r0 ELSE l0
        r == IF swap THEN l0 ELSE r0
        c == const_get_int64(r)
        abandon == [st EXCEPT !.outcome = "abandon"]
        empty == [st EXCEPT !.limitCount = make_int8_const(0), !.outcome = "empty"]
        hinted == [st EXCEPT !.hints = @ \cup {i}]
    IN  IF l0.tag # "RownumExpr" /\ r0.tag # "RownumExpr" THEN abandon
        ELSE IF expr.opname = "" THEN abandon
        ELSE IF opname = "" THEN abandon
        ELSE IF l.tag # "RownumExpr" THEN abandon
        ELSE IF opname \in {"<", "<=", "<>"}
        THEN IF contain_mutable_functions(r) \/ ~c.ok THEN abandon
             ELSE IF opname = "<="
             THEN IF c.val <= 0 THEN empty
                  ELSE IF st.limitCount # NULL THEN abandon
                  ELSE [hinted EXCEPT !.limitCount = r]
             ELSE IF opname = "<"
             THEN IF c.val <= 1 THEN empty
                  ELSE IF st.limitCount # NULL THEN abandon
                  ELSE [hinted EXCEPT !.limitCount = MinusOne(r)]
             ELSE IF c.val <= 0 THEN hinted
                  ELSE IF st.limitCount # NULL THEN abandon
                  ELSE [hinted EXCEPT !.limitCount = MinusOne(r)]
        ELSE IF opname \in {">", ">="}
        THEN IF ~c.ok THEN abandon
             ELSE IF opname = ">=" THEN (IF c.val # 1 THEN abandon ELSE hinted)
             ELSE (IF c.val # 0 THEN abandon ELSE hinted)
        ELSE IF opname = "="
        THEN IF r.tag # "RownumExpr" THEN abandon ELSE hinted
        ELSE abandon

\* the loop of rewrite_rownum_query over qual_list from conjunct i on
RECURSIVE RownumLoop(_, _, _)
RownumLoop(st, qual_list, i) ==
    IF i > Len(qual_list) \/ st.outcome # "scan" THEN st
    ELSE IF ~contain_rownum(<<qual_list[i]>>)
    THEN RownumLoop(st, qual_list, i + 1)
    ELSE RownumLoop(RownumStep(st, qual_list[i], i), qual_list, i + 1)

UnhintedQuals(qual_list, hints) ==
    LET keep == {i \in 1..Len(qual_list) : i \notin hints}
        F[i \in 0..Len(qual_list)] ==
            IF i = 0 THEN <<>>
            ELSE IF i \in keep THEN Append(F[i - 1], qual_list[i]) ELSE F[i - 1]
    IN  F[Len(qual_list)]

RownumAbandon_KeepLimit(qry, st) == [qry EXCEPT !.limitCount = st.limitCount]

\* a return out of the loop: query->limitCount has not been assigned
RownumAbandon(qry, st) == qry

rewrite_rownum_query(qry) ==
    IF \/ qry.jointree = NULL
       \/ qry.limitOffset # NULL
       \/ qry.limitCount # NULL
    THEN qry
    ELSE IF ~contain_rownum(qry.jointree.quals) THEN qry
    ELSE
    LET qual_list == qry.jointree.quals
        st == RownumLoop(RownumScan(NULL, {}, "scan"), qual_list, 1)
    IN  IF st.outcome = "abandon" THEN RownumAbandon(qry, st)
        ELSE IF st.outcome = "empty"
        THEN \* qual_list is NIL: the qualifier is not rebuilt
             [qry EXCEPT !.limitCount = st.limitCount]
        ELSE [qry EXCEPT !.limitCount = st.limitCount,
                           !.jointree.quals = UnhintedQuals(qual_list, st.hints)]

(***************************************************************************)
(* Analysis of one statement                                               *)
(***************************************************************************)
make_parsestate(grammar) ==
    [p_grammar |-> grammar, p_rtable |-> <<>>, p_joinlist |-> <<>>,
     p_namespace |-> <<>>, p_joinexprs |-> <<>>, p_save_namespace |-> <<>>]

RECURSIVE JoinIndexes(_)
JoinIndexes(node) ==
    IF node.tag = "RangeTblRef" THEN {}
    ELSE {node.rtindex} \cup JoinIndexes(node.larg) \cup JoinIndexes(node.rarg)

RECURSIVE RelIndexes(_)
RelIndexes(node) ==
    IF node.tag = "RangeTblRef" THEN {node.rtindex}
    ELSE RelIndexes(node.larg) \cup RelIndexes(node.rarg)

SetMax(S) == CHOOSE m \in S : \A x \in S : x <= m

\* the namespace transformFromClauseItem gives one FROM item
RECURSIVE ItemNamespace(_)
ItemNamespace(node) ==
    IF node.tag = "RangeTblRef"
    THEN <<ParseNamespaceItem(node.rtindex, TRUE, TRUE)>>
    ELSE Append(HideColumns(ItemNamespace(node.larg) \o ItemNamespace(node.rarg)),
                ParseNamespaceItem(node.rtindex, FALSE, TRUE))

\* the parse state once the range table and the join list are built
\* (setTargetTable and transformFromClause): fromClause is the join list
transformFromClause(ps, fromClause) ==
    LET joins == UNION {JoinIndexes(fromClause[i]) : i \in 1..Len(fromClause)}
        rels == UNION {RelIndexes(fromClause[i]) : i \in 1..Len(fromClause)}
    IN  [ps EXCEPT
            !.p_rtable = [k \in 1..SetMax(joins \cup rels \cup {0}) |->
                            IF k \in joins THEN "RTE_JOIN" ELSE "RTE_RELATION"],
            !.p_joinlist = fromClause,
            !.p_namespace = SeqConcat([i \in 1..Len(fromClause) |->
                                          ItemNamespace(fromClause[i])]),
            !.p_joinexprs = [k \in 1..SetMax(joins \cup {0}) |->
                                IF k \in joins THEN k ELSE 0]]

makeFromExpr(fromlist, quals) == [fromlist |-> fromlist, quals |-> quals]

Query(commandType, jointree, stmt) ==
    [commandType |-> commandType, jointree |-> jointree,
     limitCount |-> stmt.limitCount, limitOffset |-> stmt.limitOffset,
     hasAggs |-> stmt.hasAggs, sortClause |-> stmt.sortClause]

InsertTargetVisible_Always(grammar) == TRUE

\* transformInsertStmt: the target relation joins the namespace
InsertTargetVisible(grammar) == grammar = PARSE_GRAM_ORACLE

QueryIdle ==
    /\ parseTree = NULL
    /\ entryPoint = "none"
    /\ pstate = NULL
    /\ query = NULL
    /\ qpc = "idle"
    /\ qerr = NoError

QueryFails(code) ==
    /\ qpc' = "error"
    /\ qerr' = code
    /\ UNCHANGED <<parseTree, entryPoint, pstate, query>>

\* transformSelectStmt after transformFromAndWhere has returned r
SelectAfterFromAndWhere(r) ==
    IF r.err # NoError THEN QueryFails(r.err)
    ELSE /\ pstate' = r.pstate
         /\ query' = Query("CMD_SELECT", makeFromExpr(r.pstate.p_joinlist, r.quals),
                           parseTree)
         /\ qpc' = "transformed"
         /\ UNCHANGED <<parseTree, entryPoint, qerr>>

\* transformSelectStmt: FROM, then WHERE and the outer-join-marker rewrite
TransformSelectStmt ==
    /\ qpc = "start"
    /\ parseTree.kind = "SelectStmt"
    /\ SelectAfterFromAndWhere(
          transformFromAndWhere(transformFromClause(pstate, parseTree.fromClause),
                                parseTree.whereClause))
    /\ UNCHANGED nonQueryVars

\* transformDeleteStmt: target and USING, then WHERE
TransformDeleteStmt ==
    /\ qpc = "start"
    /\ parseTree.kind = "DeleteStmt"
    /\ LET ps == transformFromClause(pstate, parseTree.fromClause)
       IN  /\ pstate' = ps
           /\ query' = Query("CMD_DELETE",
                             makeFromExpr(ps.p_joinlist, parseTree.whereClause),
                             parseTree)
    /\ qpc' = "transformed"
    /\ UNCHANGED <<parseTree, entryPoint, qerr>>
    /\ UNCHANGED nonQueryVars

\* transformUpdateStmt: target and FROM, then WHERE
TransformUpdateStmt ==
    /\ qpc = "start"
    /\ parseTree.kind = "UpdateStmt"
    /\ LET ps == transformFromClause(pstate, parseTree.fromClause)
       IN  /\ pstate' = ps
           /\ query' = Query("CMD_UPDATE",
                             makeFromExpr(ps.p_joinlist, parseTree.whereClause),
                             parseTree)
    /\ qpc' = "transformed"
    /\ UNCHANGED <<parseTree, entryPoint, qerr>>
    /\ UNCHANGED nonQueryVars

\* transformInsertStmt (DEFAULT VALUES or one VALUES row): the target is
\* range-table entry 1 and is in neither join list
TransformInsertStmt ==
    /\ qpc = "start"
    /\ parseTree.kind = "InsertStmt"
    /\ LET ps == [pstate EXCEPT
                    !.p_rtable = <<"RTE_RELATION">>,
                    !.p_namespace =
                        IF InsertTargetVisible(pstate.p_grammar)
                        THEN <<ParseNamespaceItem(1, TRUE, TRUE)>>
                        ELSE <<>>]
       IN  /\ pstate' = ps
           /\ query' = Query("CMD_INSERT", makeFromExpr(ps.p_joinlist, <<>>),
                             parseTree)
    /\ qpc' = "transformed"
    /\ UNCHANGED <<parseTree, entryPoint, qerr>>
    /\ UNCHANGED nonQueryVars

JoinonChecked(r) ==
    IF r.err # NoError THEN QueryFails(r.err)
    ELSE /\ query' = [query EXCEPT !.jointree = r.node]
         /\ pstate' = [pstate EXCEPT !.p_joinlist = r.node.fromlist]
         /\ qpc' = "joinon"
         /\ UNCHANGED <<parseTree, entryPoint, qerr>>

\* parse_analyze_for_gram: check_joinon_column_join on query->jointree
CheckJoinonColumnJoin ==
    /\ qpc = "transformed"
    /\ entryPoint = ForGram
    /\ JoinonChecked(check_joinon_column_join_from(query.jointree))
    /\ UNCHANGED nonQueryVars

\* parse_analyze_for_gram: rewrite_rownum_query_enum on the query
RewriteRownumQueryEnum ==
    /\ qpc = "joinon"
    /\ query' = rewrite_rownum_query(query)
    /\ qpc' = "rownum"
    /\ UNCHANGED <<parseTree, entryPoint, pstate, qerr>>
    /\ UNCHANGED nonQueryVars

\* the entry point hands the Query back
AnalyzeReturn ==
    /\ \/ entryPoint = ForGram /\ qpc = "rownum"
       \/ entryPoint = VarparamsForGram /\ qpc = "transformed"
    /\ qpc' = "done"
    /\ UNCHANGED <<parseTree, entryPoint, pstate, query, qerr>>
    /\ UNCHANGED nonQueryVars

QueryNext ==
    \/ TransformSelectStmt
    \/ TransformDeleteStmt
    \/ TransformUpdateStmt
    \/ TransformInsertStmt
    \/ CheckJoinonColumnJoin
    \/ RewriteRownumQueryEnum
    \/ AnalyzeReturn

(***************************************************************************)
(* The statements analysed                                                 *)
(***************************************************************************)
JoinTypes == {JOIN_INNER, JOIN_LEFT, JOIN_RIGHT, JOIN_FULL}

SeqsUpTo(S, n) == UNION {[1..k -> S] : k \in 0..n}

\* a FROM list of n relations, none joined explicitly
RefList(n) == [i \in 1..n |-> RangeTblRef(i)]

\* a FROM list of n relations whose k-th and (k+1)-th are joined explicitly;
\* the join takes the range-table index after its two sides
JoinAt(n, k, jointype, quals) ==
    [i \in 1..(n - 1) |->
        IF i < k THEN RangeTblRef(i)
        ELSE IF i = k
             THEN JoinExpr(jointype, RangeTblRef(k), RangeTblRef(k + 1), quals, k + 2)
             ELSE RangeTblRef(i + 2)]

OnClauses(a, b) ==
    {<<OpExpr("=", Var(a), Var(b))>>, <<OpExpr("=", Var(a), ColumnRefJoin(b))>>}

\* FROM lists of up to maxTables relations, at most one explicit join
FromClauses(maxTables) ==
    {RefList(n) : n \in 1..maxTables}
    \cup UNION {UNION {{JoinAt(n, k, jt, q) : jt \in JoinTypes, q \in OnClauses(k, k + 1)}
                       : k \in 1..(n - 1)} : n \in 2..maxTables}

RelsOf(fromClause) == UNION {RelIndexes(fromClause[i]) : i \in 1..Len(fromClause)}

SetMin(S) == CHOOSE m \in S : \A x \in S : m <= x

\* WHERE conjuncts over the relations T
JoinPreds(T) ==
    {OpExpr("=", Var(p[1]), Var(p[2])) : p \in {q \in T \X T : q[1] < q[2]}}
    \cup {OpExpr("=", Var(p[1]), ColumnRefJoin(p[2])) : p \in {q \in T \X T : q[1] # q[2]}}
    \cup {OpExpr("=", ColumnRefJoin(p[1]), Var(p[2])) : p \in {q \in T \X T : q[1] < q[2]}}
    \cup {OpExpr("=", ColumnRefJoin(SetMin(T)), ColumnRefJoin(b)) : b \in {t \in T : t = SetMin(T) + 1}}
    \cup {OpExpr("=", Var(SetMin(T)), ColumnRefJoin(SetMin(T))),
          OpExpr(">", Var(SetMin(T)), Const(INT4OID, 0)),
          OpExpr(">", ColumnRefJoin(SetMin(T)), Const(INT4OID, 0))}

RownumOps == {"<=", "<", "<>", ">=", ">", "="}

\* WHERE conjuncts about ROWNUM, and one about the column of the table
RownumPreds ==
    {OpExpr(op, RownumExpr, Const(INT4OID, k)) : op \in RownumOps, k \in 0..MaxK}
    \cup {OpExpr(">=", Const(INT4OID, k), RownumExpr) : k \in 0..1}
    \cup {OpExpr("=", RownumExpr, RownumExpr),
          OpExpr("<=", RownumExpr, Const(NUMERICOID, 1)),
          OpExpr("<=", RownumExpr, NullConst(INT4OID)),
          OpExpr("<=", RownumExpr, MutableFunc),
          OpExpr("<=", RownumExpr, Var(1)),
          OpExpr("~~", Const(INT4OID, 1), RownumExpr),
          FuncExpr("", RownumExpr, Const(INT4OID, 1)),
          FuncExpr("<=", RownumExpr, Const(INT8OID, 1)),
          OpExpr(">", Var(1), Const(INT4OID, 0))}

Stmt(kind, fromClause, whereClause, hasAggs, sortClause, limitCount, limitOffset) ==
    [kind |-> kind, fromClause |-> fromClause, whereClause |-> whereClause,
     hasAggs |-> hasAggs, sortClause |-> sortClause,
     limitCount |-> limitCount, limitOffset |-> limitOffset]

PlainStmt(kind, fromClause, whereClause) ==
    Stmt(kind, fromClause, whereClause, FALSE, FALSE, NULL, NULL)

\* SELECT over one to maxTables relations with (+) markers in up to maxWhere
\* conjuncts
JoinStmts(maxTables, maxWhere) ==
    UNION {{PlainStmt("SelectStmt", f, w) : w \in SeqsUpTo(JoinPreds(RelsOf(f)), maxWhere)}
           : f \in FromClauses(maxTables)}

\* SELECT over one table with ROWNUM in up to maxWhere conjuncts
RownumStmts(maxWhere) ==
    {Stmt("SelectStmt", RefList(1), w, o[1], o[2], o[3], o[4]) :
        w \in SeqsUpTo(RownumPreds, maxWhere),
        o \in {<<FALSE, FALSE, NULL, NULL>>, <<TRUE, FALSE, NULL, NULL>>,
               <<FALSE, TRUE, NULL, NULL>>,
               <<FALSE, FALSE, Const(INT8OID, 1), NULL>>,
               <<FALSE, FALSE, NULL, Const(INT8OID, 1)>>}}

\* DELETE, UPDATE (target first in the join list) and INSERT
DmlStmts ==
    {PlainStmt(k, f, w) :
        k \in {"DeleteStmt", "UpdateStmt"},
        f \in {RefList(1), RefList(2)},
        w \in SeqsUpTo(JoinPreds({1}) \cup
                       {OpExpr("<=", RownumExpr, Const(INT4OID, 1))}, 1)}
    \cup {PlainStmt("InsertStmt", <<>>, <<>>)}

QueryInit ==
    /\ parseTree \in JoinStmts(MaxTables, MaxWhere) \cup RownumStmts(MaxWhere) \cup DmlStmts
    /\ entryPoint \in {ForGram, VarparamsForGram}
    /\ pstate \in {make_parsestate(g) : g \in ParseGrammar}
    /\ query = NULL
    /\ qpc = "start"
    /\ qerr = NoError

(***************************************************************************)
(* Evaluation of a single-table query (the executor): rows are the values  *)
(* of the table's column in scan order; ROWNUM numbers the rows as they    *)
(* pass the qualifier; then aggregation (count), ORDER BY, LIMIT.          *)
(***************************************************************************)
LeafValue(leaf, x, n) ==
    CASE leaf.tag = "Var" -> x
      [] leaf.tag = "Const" -> leaf.val
      [] leaf.tag = "RownumExpr" -> n
      [] OTHER -> 0

LeafIsNull(leaf) == leaf.tag = "Const" /\ leaf.constisnull

Compare(opname, a, b) ==
    CASE opname = "<" -> a < b
      [] opname = "<=" -> a <= b
      [] opname = "=" -> a = b
      [] opname = "<>" -> a # b
      [] opname = ">=" -> a >= b
      [] opname = ">" -> a > b
      [] OTHER -> FALSE

PredHolds(e, x, n) ==
    /\ ~LeafIsNull(e.args[1])
    /\ ~LeafIsNull(e.args[2])
    /\ Compare(e.opname, LeafValue(e.args[1], x, n), LeafValue(e.args[2], x, n))

\* the rows passing the qualifier, n being the ROWNUM of the next to pass
RECURSIVE ScanRows(_, _, _)
ScanRows(rows, quals, n) ==
    IF rows = <<>> THEN <<>>
    ELSE IF \A i \in 1..Len(quals) : PredHolds(quals[i], Head(rows), n)
         THEN <<Head(rows)>> \o ScanRows(Tail(rows), quals, n + 1)
         ELSE ScanRows(Tail(rows), quals, n)

RECURSIVE SortRows(_)
SortRows(seq) ==
    IF seq = <<>> THEN <<>>
    ELSE LET m == SetMin({seq[i] : i \in 1..Len(seq)})
         IN  <<m>> \o SortRows(RemoveAt(seq, PositionOf(seq, m)))

Take(seq, k) ==
    IF k <= 0 THEN <<>> ELSE IF k >= Len(seq) THEN seq ELSE SubSeq(seq, 1, k)

RECURSIVE LimitValue(_)
LimitValue(node) ==
    IF node.tag = "Const" THEN node.val
    ELSE LimitValue(node.args[1]) - LimitValue(node.args[2])

Aggregated(qry, passed) == IF qry.hasAggs THEN <<Len(passed)>> ELSE passed
Ordered(qry, rows) == IF qry.sortClause THEN SortRows(rows) ELSE rows
Limited(qry, rows) ==
    IF qry.limitCount = NULL THEN rows ELSE Take(rows, LimitValue(qry.limitCount))

ExecQuery(qry, rows) ==
    Limited(qry, Ordered(qry, Aggregated(qry, ScanRows(rows, qry.jointree.quals, 1))))

BagOfSeq(seq) ==
    [v \in {seq[i] : i \in 1..Len(seq)} |-> Cardinality({i \in 1..Len(seq) : seq[i] = v})]

Tables == SeqsUpTo(0..1, MaxRows)

(***************************************************************************)
(* transformTopLevelStmt and transformStmt on statement trees              *)
(*                                                                         *)
(* A result is [err, query, reached]: query is the Query built (NULL on    *)
(* error), reached tells that a statement transformer was entered for a    *)
(* SELECT still carrying INTO.                                             *)
(***************************************************************************)
INVALID_CURSOR_DEFINITION == "ERRCODE_INVALID_CURSOR_DEFINITION"
\* the analysis error of a WITH clause that transformWithClause rejects
WITH_CLAUSE_ERROR == "analysis error of the WITH clause"

\* no WITH clause, one that transformWithClause accepts, one that it rejects
WithClauses == {"none", "accepted", "rejected"}

\* the error transformWithClause raises, if any
transformWithClause(withClause) ==
    IF withClause = "rejected" THEN WITH_CLAUSE_ERROR ELSE NoError

SelectStmt(intoClause, withClause, fromSub) ==
    [kind |-> "SelectStmt", op |-> "SETOP_NONE", intoClause |-> intoClause,
     withClause |-> withClause, fromSub |-> fromSub, larg |-> NULL, rarg |-> NULL]
SetOperation(larg, rarg, withClause) ==
    [kind |-> "SelectStmt", op |-> "SETOP_UNION", intoClause |-> FALSE,
     withClause |-> withClause, fromSub |-> NULL, larg |-> larg, rarg |-> rarg]
ExplainStmt(stmt) == [kind |-> "ExplainStmt", query |-> stmt]
DeclareCursorStmt(stmt, scrollAndNoScroll) ==
    [kind |-> "DeclareCursorStmt", query |-> stmt, scrollAndNoScroll |-> scrollAndNoScroll]
CreateTableAsStmt(stmt, is_select_into) ==
    [kind |-> "CreateTableAsStmt", query |-> stmt, is_select_into |-> is_select_into]
InsertSelectStmt(selectStmt) == [kind |-> "InsertStmt", selectStmt |-> selectStmt]
OtherStmt == [kind |-> "VacuumStmt"]

DQuery(commandType, utilityStmt) ==
    [commandType |-> commandType, utilityStmt |-> utilityStmt]

Done(qry, reached) == [err |-> NoError, query |-> qry, reached |-> reached]
Failed(code, reached) == [err |-> code, query |-> NULL, reached |-> reached]

\* the leftmost leaf SelectStmt of a set-operation tree
RECURSIVE LeftmostLeaf(_)
LeftmostLeaf(stmt) == IF stmt.op = "SETOP_NONE" THEN stmt ELSE LeftmostLeaf(stmt.larg)

ClearLeftmostInto_Keep(stmt) == stmt

\* stmt->intoClause = NULL on the leftmost leaf
RECURSIVE ClearLeftmostInto(_)
ClearLeftmostInto(stmt) ==
    IF stmt.op = "SETOP_NONE" THEN [stmt EXCEPT !.intoClause = FALSE]
    ELSE [stmt EXCEPT !.larg = ClearLeftmostInto(stmt.larg)]

\* transformTopLevelStmt up to its call of transformStmt: SELECT ... INTO
\* becomes CREATE TABLE AS
LiftSelectInto(parsetree) ==
    IF parsetree.kind = "SelectStmt" /\ LeftmostLeaf(parsetree).intoClause
    THEN CreateTableAsStmt(ClearLeftmostInto(parsetree), TRUE)
    ELSE parsetree

RECURSIVE transformStmt(_)
RECURSIVE transformSetOperationTree(_)

transformTopLevelStmt(parsetree) == transformStmt(LiftSelectInto(parsetree))

\* parse_sub_analyze: a child parse state, transformStmt, free
parse_sub_analyze(parsetree) == transformStmt(parsetree)

\* passes an error of the contained statement on, else builds with Build
Contained(r, qry) == IF r.err # NoError THEN r ELSE Done(qry, r.reached)

\* DECLARE CURSOR and INSERT ... SELECT take nothing but a plain SELECT Query
IsPlainSelect(r) ==
    /\ r.query.commandType = "CMD_SELECT"
    /\ r.query.utilityStmt = NULL

\* transformSelectStmt: WITH is processed, then INTO rejected, then FROM
transformSelectStmt(stmt) ==
    IF transformWithClause(stmt.withClause) # NoError
    THEN Failed(transformWithClause(stmt.withClause), stmt.intoClause)
    ELSE IF stmt.intoClause THEN Failed(SYNTAX_ERROR, TRUE)
    ELSE IF stmt.fromSub # NULL
    THEN Contained(parse_sub_analyze(stmt.fromSub), DQuery("CMD_SELECT", NULL))
    ELSE Done(DQuery("CMD_SELECT", NULL), FALSE)

\* an internal node of transformSetOperationTree after its left child l
SetOperationRight(stmt, l) ==
    IF l.err # NoError THEN l
    ELSE Contained(transformSetOperationTree(stmt.rarg),
                   DQuery("CMD_SELECT", NULL))

transformSetOperationTree(stmt) ==
    IF stmt.intoClause THEN Failed(SYNTAX_ERROR, TRUE)
    ELSE IF stmt.op = "SETOP_NONE" \/ stmt.withClause # "none"
    THEN parse_sub_analyze(stmt)
    ELSE SetOperationRight(stmt, transformSetOperationTree(stmt.larg))

\* transformSetOperationStmt: INTO on the leftmost leaf is rejected first, the
\* WITH clause is taken off and processed, then the tree is transformed
transformSetOperationStmt(stmt) ==
    IF LeftmostLeaf(stmt.larg).intoClause THEN Failed(SYNTAX_ERROR, TRUE)
    ELSE IF transformWithClause(stmt.withClause) # NoError
    THEN Failed(transformWithClause(stmt.withClause), FALSE)
    ELSE transformSetOperationTree([stmt EXCEPT !.withClause = "none"])

DeclareCursorResult(stmt, r) ==
    IF r.err # NoError THEN r
    ELSE IF ~IsPlainSelect(r) THEN Failed(INTERNAL_ERROR, r.reached)
    ELSE Done([r.query EXCEPT !.utilityStmt = [kind |-> stmt.kind]], r.reached)

transformDeclareCursorStmt(stmt) ==
    IF stmt.scrollAndNoScroll THEN Failed(INVALID_CURSOR_DEFINITION, FALSE)
    ELSE DeclareCursorResult(stmt, transformStmt(stmt.query))

UtilityResult(stmt, r) ==
    IF r.err # NoError THEN r
    ELSE Done(DQuery("CMD_UTILITY", [stmt EXCEPT !.query = r.query]), r.reached)

\* transformExplainStmt: the contained statement goes through
\* transformTopLevelStmt
transformExplainStmt(stmt) == UtilityResult(stmt, transformTopLevelStmt(stmt.query))

transformCreateTableAsStmt(stmt) == UtilityResult(stmt, transformStmt(stmt.query))

InsertSelectResult(r) ==
    IF r.err # NoError THEN r
    ELSE IF ~IsPlainSelect(r) THEN Failed(INTERNAL_ERROR, r.reached)
    ELSE Done(DQuery("CMD_INSERT", NULL), r.reached)

\* transformInsertStmt with DEFAULT VALUES (no selectStmt) or a general SELECT
transformInsertSelect(stmt) ==
    IF stmt.selectStmt = NULL THEN Done(DQuery("CMD_INSERT", NULL), FALSE)
    ELSE InsertSelectResult(transformStmt(stmt.selectStmt))

transformStmt(parsetree) ==
    CASE parsetree.kind = "InsertStmt" -> transformInsertSelect(parsetree)
      [] parsetree.kind = "SelectStmt" ->
            IF parsetree.op = "SETOP_NONE" THEN transformSelectStmt(parsetree)
            ELSE transformSetOperationStmt(parsetree)
      [] parsetree.kind = "DeclareCursorStmt" -> transformDeclareCursorStmt(parsetree)
      [] parsetree.kind = "ExplainStmt" -> transformExplainStmt(parsetree)
      [] parsetree.kind = "CreateTableAsStmt" -> transformCreateTableAsStmt(parsetree)
      [] OTHER -> Done(DQuery("CMD_UTILITY", parsetree), FALSE)

\* SELECT without set operation, sub-SELECTs in FROM nested up to depth d
RECURSIVE SimpleSelects(_)
SimpleSelects(d) ==
    {SelectStmt(i, w, NULL) : i \in BOOLEAN, w \in WithClauses}
    \cup (IF d = 0 THEN {}
          ELSE {SelectStmt(i, w, sub) : i \in BOOLEAN, w \in WithClauses,
                                        sub \in SimpleSelects(d - 1)})

SetOperations ==
    {SetOperation(l, r, w) : l \in SimpleSelects(0), r \in SimpleSelects(0),
                             w \in {"none", "rejected"}}
    \cup {SetOperation(SetOperation(l, r, w), r, "none") :
            l \in SimpleSelects(0), r \in SimpleSelects(0),
            w \in {"none", "accepted"}}

Selects == SimpleSelects(MaxSubDepth) \cup SetOperations

ParseTrees ==
    Selects
    \cup {ExplainStmt(q) : q \in Selects}
    \cup {ExplainStmt(ExplainStmt(q)) : q \in SimpleSelects(0)}
    \cup {DeclareCursorStmt(q, c) : q \in Selects, c \in BOOLEAN}
    \cup {CreateTableAsStmt(q, FALSE) : q \in Selects}
    \cup {InsertSelectStmt(q) : q \in Selects \cup {NULL}}
    \cup {OtherStmt}

DispatchInit ==
    /\ dtree \in ParseTrees
    /\ dstmt = NULL
    /\ dresult = NULL
    /\ dpc = "start"

DispatchIdle ==
    /\ dtree = NULL
    /\ dstmt = NULL
    /\ dresult = NULL
    /\ dpc = "idle"

\* transformTopLevelStmt, to its call of transformStmt
TransformTopLevelStmt ==
    /\ dpc = "start"
    /\ dstmt' = LiftSelectInto(dtree)
    /\ dpc' = "lifted"
    /\ UNCHANGED <<dtree, dresult>>
    /\ UNCHANGED nonDispatchVars

Dispatched(r) ==
    /\ dresult' = r
    /\ dpc' = IF r.err = NoError THEN "done" ELSE "error"

\* transformStmt on what transformTopLevelStmt hands it
TransformStmt ==
    /\ dpc = "lifted"
    /\ Dispatched(transformStmt(dstmt))
    /\ UNCHANGED <<dtree, dstmt>>
    /\ UNCHANGED nonDispatchVars

DispatchNext ==
    \/ TransformTopLevelStmt
    \/ TransformStmt

(***************************************************************************)
(* transformInsertStmt: the order of the locks                             *)
(*                                                                         *)
(* A WithClause holds one common table expression, a SELECT over the       *)
(* relations of its from.  A source SELECT is [valuesLists, fromClause,    *)
(* sortClause, withClause]: valuesLists is the number of VALUES rows (0    *)
(* for SELECT ... FROM), sortClause stands for ORDER BY, LIMIT and the     *)
(* locking clause alike.                                                   *)
(***************************************************************************)
AccessShareLock == "AccessShareLock"
RowExclusiveLock == "RowExclusiveLock"

Event(op, rel, lockmode) == [op |-> op, rel |-> rel, lockmode |-> lockmode]

WithClause(from) == [tag |-> "WithClause", from |-> from]

SourceSelect(valuesLists, fromClause, sortClause, withClause) ==
    [tag |-> "SelectStmt", valuesLists |-> valuesLists, fromClause |-> fromClause,
     sortClause |-> sortClause, withClause |-> withClause]

InsertStmt(relation, withClause, selectStmt) ==
    [tag |-> "InsertStmt", relation |-> relation, withClause |-> withClause,
     selectStmt |-> selectStmt]

\* the relations of a FROM clause are opened with AccessShareLock, in order
FromClauseLocks(by, fromClause) ==
    [i \in 1..Len(fromClause) |-> Event(by, fromClause[i], AccessShareLock)]

\* transformWithClause analyses the query of each common table expression
WithClauseLocks(withClause) ==
    IF withClause = NULL THEN <<>>
    ELSE FromClauseLocks("transformWithClause", withClause.from)

\* transformStmt on the source SELECT in the child parse state: the analysis
\* begins, WITH is processed, then FROM
SourceSelectEvents(selectStmt) ==
    <<Event("transformStmt", 0, "none")>>
        \o WithClauseLocks(selectStmt.withClause)
        \o FromClauseLocks("transformFromClause", selectStmt.fromClause)

isGeneralSelect(selectStmt) ==
    /\ selectStmt # NULL
    /\ \/ selectStmt.valuesLists = 0
       \/ selectStmt.sortClause
       \/ selectStmt.withClause # NULL

Rels == 1..MaxRels

WithClausesOver(rels, maxFrom) ==
    {NULL} \cup {WithClause(f) : f \in UNION {[1..n -> rels] : n \in 1..maxFrom}}

SourceSelects(rels, maxFrom) ==
    {SourceSelect(0, f, o, w) :
        f \in UNION {[1..n -> rels] : n \in 1..maxFrom},
        o \in BOOLEAN, w \in WithClausesOver(rels, 1)}
    \cup {SourceSelect(v, <<>>, o, w) :
        v \in 1..2, o \in BOOLEAN, w \in WithClausesOver(rels, 1)}

InsertStmts(rels, maxFrom) ==
    {InsertStmt(r, w, q) :
        r \in rels, w \in WithClausesOver(rels, 1),
        q \in {NULL} \cup SourceSelects(rels, maxFrom)}

InsertInit ==
    /\ insertStmt \in InsertStmts(Rels, MaxFrom)
    /\ itrace = <<>>
    /\ ipc = "start"

InsertIdle ==
    /\ insertStmt = NULL
    /\ itrace = <<>>
    /\ ipc = "idle"

\* the WITH clause of the INSERT is processed independently of all else
InsertWithClause ==
    /\ ipc = "start"
    /\ itrace' = itrace \o WithClauseLocks(insertStmt.withClause)
    /\ ipc' = "with"
    /\ UNCHANGED <<insertStmt, nonInsertVars>>

\* setTargetTable opens the target with RowExclusiveLock; checkInsertTargets
InsertSetTargetTable ==
    /\ ipc = "with"
    /\ itrace' = Append(itrace, Event("setTargetTable", insertStmt.relation,
                                      RowExclusiveLock))
    /\ ipc' = "target"
    /\ UNCHANGED <<insertStmt, nonInsertVars>>

\* the variant of INSERT: DEFAULT VALUES, a general SELECT handed to
\* transformStmt, several VALUES rows, one VALUES row
InsertSource ==
    /\ ipc = "target"
    /\ itrace' = IF isGeneralSelect(insertStmt.selectStmt)
                 THEN itrace \o SourceSelectEvents(insertStmt.selectStmt)
                 ELSE itrace
    /\ ipc' = IF insertStmt.selectStmt = NULL THEN "default"
              ELSE IF isGeneralSelect(insertStmt.selectStmt) THEN "select"
              ELSE IF insertStmt.selectStmt.valuesLists > 1 THEN "valueslists"
              ELSE "values"
    /\ UNCHANGED <<insertStmt, nonInsertVars>>

\* the target list is built and the Query returned
InsertReturn ==
    /\ ipc \in {"default", "select", "valueslists", "values"}
    /\ ipc' = "done"
    /\ UNCHANGED <<insertStmt, itrace, nonInsertVars>>

InsertNext ==
    \/ InsertWithClause
    \/ InsertSetTargetTable
    \/ InsertSource
    \/ InsertReturn

(***************************************************************************)
(* transformExecDirectStmt                                                 *)
(*                                                                         *)
(* An ExecDirectStmt is [node_names, node, query]: node_names the number   *)
(* of node names given, node what the first name denotes, query the        *)
(* statements pg_parse_query finds in the text, each by its node tag.      *)
(***************************************************************************)
FEATURE_NOT_SUPPORTED == "ERRCODE_FEATURE_NOT_SUPPORTED"
UNDEFINED_OBJECT == "ERRCODE_UNDEFINED_OBJECT"

\* what a node name denotes: no node, this coordinator, another
\* coordinator, a datanode
NodeKinds == {"undefined", "self", "coordinator", "datanode"}

\* the statements of the text: SELECT, the three DML statements, the two
\* tablespace utilities and one other utility
InnerStmts == {"SelectStmt", "InsertStmt", "UpdateStmt", "DeleteStmt",
               "CreateTableSpaceStmt", "DropTableSpaceStmt", "VacuumStmt"}

ExecDirectStmt(node_names, node, stmts) ==
    [tag |-> "ExecDirectStmt", node_names |-> node_names, node |-> node,
     query |-> stmts]

\* the Query parse_analyze gives for a raw statement
parse_analyze(parsetree) ==
    CASE parsetree = "SelectStmt" -> [commandType |-> "CMD_SELECT", utilityStmt |-> NULL]
      [] parsetree = "InsertStmt" -> [commandType |-> "CMD_INSERT", utilityStmt |-> NULL]
      [] parsetree = "UpdateStmt" -> [commandType |-> "CMD_UPDATE", utilityStmt |-> NULL]
      [] parsetree = "DeleteStmt" -> [commandType |-> "CMD_DELETE", utilityStmt |-> NULL]
      [] OTHER -> [commandType |-> "CMD_UTILITY", utilityStmt |-> [tag |-> parsetree]]

\* makeNode(Query): nothing set
EmptyQuery == [commandType |-> "CMD_UNKNOWN", utilityStmt |-> NULL]

IsExecDirectUtilityStmt(node) ==
    IF node = NULL THEN TRUE
    ELSE node.tag \in {"CreateTableSpaceStmt", "DropTableSpaceStmt"}

\* Set up EXECUTE DIRECT flag
exec_direct_type(is_local, commandType) ==
    IF is_local
    THEN IF commandType = "CMD_UTILITY" THEN "EXEC_DIRECT_LOCAL_UTILITY"
         ELSE "EXEC_DIRECT_LOCAL"
    ELSE CASE commandType = "CMD_UTILITY" -> "EXEC_DIRECT_UTILITY"
           [] commandType = "CMD_SELECT" -> "EXEC_DIRECT_SELECT"
           [] commandType = "CMD_INSERT" -> "EXEC_DIRECT_INSERT"
           [] commandType = "CMD_UPDATE" -> "EXEC_DIRECT_UPDATE"
           [] commandType = "CMD_DELETE" -> "EXEC_DIRECT_DELETE"
           [] OTHER -> "EXEC_DIRECT_NONE"

\* Features not yet supported: the error of the authorisation, if any
ExecDirectRefused(type, utilityStmt, maintenance) ==
    \/ /\ ~maintenance
       /\ type \in {"EXEC_DIRECT_DELETE", "EXEC_DIRECT_UPDATE", "EXEC_DIRECT_INSERT"}
    \/ /\ type = "EXEC_DIRECT_UTILITY"
       /\ ~IsExecDirectUtilityStmt(utilityStmt)
       /\ ~maintenance
    \/ /\ type = "EXEC_DIRECT_LOCAL_UTILITY"
       /\ ~maintenance

ExecDirectStmts(maxNodes, maxQueries) ==
    {ExecDirectStmt(n, k, q) :
        n \in 1..maxNodes, k \in NodeKinds,
        q \in UNION {[1..m -> InnerStmts] : m \in 0..maxQueries}}

ExecInit ==
    /\ execStmt \in ExecDirectStmts(MaxNodes, MaxQueries)
    /\ IS_PGXC_DATANODE \in BOOLEAN
    /\ xc_maintenance_mode \in BOOLEAN
    /\ eresult = EmptyQuery
    /\ step = NULL
    /\ epc = "start"
    /\ eerr = NoError

ExecIdle ==
    /\ execStmt = NULL
    /\ IS_PGXC_DATANODE = FALSE
    /\ xc_maintenance_mode = FALSE
    /\ eresult = NULL
    /\ step = NULL
    /\ epc = "idle"
    /\ eerr = NoError

\* the checks of the server and of the node named
ExecDirectNode ==
    /\ epc = "start"
    /\ IF IS_PGXC_DATANODE \/ execStmt.node_names > 1
       THEN epc' = "error" /\ eerr' = FEATURE_NOT_SUPPORTED
       ELSE IF execStmt.node = "undefined"
       THEN epc' = "error" /\ eerr' = UNDEFINED_OBJECT
       ELSE epc' = "node" /\ eerr' = eerr
    /\ UNCHANGED <<execStmt, IS_PGXC_DATANODE, xc_maintenance_mode, eresult, step,
                   nonExecVars>>

\* the text is parsed and its statement analysed
ExecDirectAnalyze ==
    /\ epc = "node"
    /\ IF Len(execStmt.query) > 1
       THEN /\ epc' = "error"
            /\ eerr' = FEATURE_NOT_SUPPORTED
            /\ eresult' = eresult
       ELSE /\ epc' = "analyzed"
            /\ eerr' = eerr
            /\ eresult' = IF execStmt.query = <<>> THEN eresult
                          ELSE parse_analyze(execStmt.query[1])
    /\ UNCHANGED <<execStmt, IS_PGXC_DATANODE, xc_maintenance_mode, step, nonExecVars>>

\* the RemoteQuery is set up and the statement authorised; assertions tells
\* whether the Assert(0) of the switch's default is compiled in
ExecDirectAuthorize ==
    /\ epc = "analyzed"
    /\ \E assertions \in BOOLEAN :
        LET is_local == execStmt.node = "self"
            type == exec_direct_type(is_local, eresult.commandType)
        IN  IF assertions /\ ~is_local /\ eresult.commandType = "CMD_UNKNOWN"
            THEN epc' = "aborted" /\ eerr' = eerr /\ step' = step /\ eresult' = eresult
            ELSE IF ExecDirectRefused(type, eresult.utilityStmt, xc_maintenance_mode)
            THEN /\ epc' = "error"
                 /\ eerr' = FEATURE_NOT_SUPPORTED
                 /\ step' = step
                 /\ eresult' = eresult
            ELSE /\ epc' = "done"
                 /\ eerr' = eerr
                 /\ step' = [tag |-> "RemoteQuery", exec_direct_type |-> type,
                             exec_type |-> IF execStmt.node = "datanode"
                                           THEN "EXEC_ON_DATANODES"
                                           ELSE "EXEC_ON_COORDS"]
                 /\ eresult' = IF is_local THEN eresult
                               ELSE [eresult EXCEPT !.utilityStmt = step']
    /\ UNCHANGED <<execStmt, IS_PGXC_DATANODE, xc_maintenance_mode, nonExecVars>>

ExecNext ==
    \/ ExecDirectNode
    \/ ExecDirectAnalyze
    \/ ExecDirectAuthorize

(***************************************************************************)
(* transformSetOperationStmt and transformSetOperationTree: column lists   *)
(* and range table.                                                        *)
(*                                                                         *)
(* A member is a simple SELECT [cols, junk, lockingClause]: cols result    *)
(* columns and junk resjunk entries its own ORDER BY adds; or a UNION of   *)
(* two members, sortClause telling that ORDER BY, LIMIT or WITH ride on    *)
(* it.  All columns are of type int4.  The ORDER BY of the statement is a  *)
(* sequence of items: "name" names a result column, "expr" is another      *)
(* expression over result columns, "undefined" names no column.  The       *)
(* locking clause of the statement is drawn where the function tests it,   *)
(* its ORDER BY where the function resolves it.  The INTO tests are those  *)
(* of the dispatch of statement trees above.                               *)
(***************************************************************************)
UNDEFINED_COLUMN == "ERRCODE_UNDEFINED_COLUMN"

SimpleMember(cols, junk, lockingClause) ==
    [op |-> "SETOP_NONE", cols |-> cols, junk |-> junk,
     lockingClause |-> lockingClause, sortClause |-> FALSE]

UnionMember(larg, rarg, sortClause) ==
    [op |-> "SETOP_UNION", larg |-> larg, rarg |-> rarg,
     lockingClause |-> FALSE, sortClause |-> sortClause]

TargetEntry(resno, resjunk) == [resno |-> resno, resjunk |-> resjunk]

SetOperationStmt(larg, rarg, n) ==
    [tag |-> "SetOperationStmt", larg |-> larg, rarg |-> rarg,
     colTypes |-> [i \in 1..n |-> INT4OID],
     colTypmods |-> [i \in 1..n |-> -1],
     colCollations |-> [i \in 1..n |-> 0]]

\* the Query of a simple SELECT: its result columns, then its resjunk entries
SimpleQuery(stmt) ==
    [err |-> NoError,
     targetList |-> [i \in 1..(stmt.cols + stmt.junk) |->
                        TargetEntry(i, i > stmt.cols)]]

NonJunk_All(targetList) == targetList

\* the non-junk entries of a member's target list
NonJunk(targetList) == SelectSeq(targetList, LAMBDA tle : ~tle.resjunk)

TreeResult(err, node, targetlist, rtable) ==
    [err |-> err, node |-> node, targetlist |-> targetlist, rtable |-> rtable]

RECURSIVE SetOpTree(_, _)

\* a non-leaf node after its children l and r: the arity test and the
\* three column lists
SetOpColumns(l, r) ==
    IF r.err # NoError THEN TreeResult(r.err, NULL, <<>>, r.rtable)
    ELSE IF Len(l.targetlist) # Len(r.targetlist)
    THEN TreeResult(SYNTAX_ERROR, NULL, <<>>, r.rtable)
    ELSE TreeResult(NoError,
                    SetOperationStmt(l.node, r.node, Len(l.targetlist)),
                    [i \in 1..Len(l.targetlist) |-> TargetEntry(0, FALSE)],
                    r.rtable)

SetOpRarg(stmt, l) ==
    IF l.err # NoError THEN TreeResult(l.err, NULL, <<>>, l.rtable)
    ELSE SetOpColumns(l, SetOpTree(stmt.rarg, l.rtable))

\* the Query of a UNION analysed as a statement of its own, t being its tree
SetOpSubQuery(t) ==
    IF t.err # NoError THEN [err |-> t.err, targetList |-> <<>>]
    ELSE [err |-> NoError,
          targetList |-> [i \in 1..Len(t.node.colTypes) |-> TargetEntry(i, FALSE)]]

\* parse_sub_analyze on a leaf, in a parse state of its own
SetOpSubAnalyze(stmt) ==
    IF stmt.op = "SETOP_NONE" THEN SimpleQuery(stmt)
    ELSE SetOpSubQuery(SetOpTree([stmt EXCEPT !.sortClause = FALSE], <<>>))

\* a leaf after its analysis: a subquery range-table entry and a RangeTblRef
SetOpLeaf(rtable, selectQuery) ==
    IF selectQuery.err # NoError THEN TreeResult(selectQuery.err, NULL, <<>>, rtable)
    ELSE TreeResult(NoError, RangeTblRef(Len(rtable) + 1),
                    NonJunk(selectQuery.targetList),
                    Append(rtable, [rtekind |-> "RTE_SUBQUERY",
                                    subquery |-> selectQuery]))

\* transformSetOperationTree on stmt, rtable being pstate->p_rtable
SetOpTree(stmt, rtable) ==
    IF stmt.lockingClause
    THEN TreeResult(FEATURE_NOT_SUPPORTED, NULL, <<>>, rtable)
    ELSE IF stmt.op = "SETOP_NONE" \/ stmt.sortClause
    THEN SetOpLeaf(rtable, SetOpSubAnalyze(stmt))
    ELSE SetOpRarg(stmt, SetOpTree(stmt.larg, rtable))

\* the leftmost RangeTblRef of the analysed tree
RECURSIVE LeftmostRTI(_)
LeftmostRTI(node) ==
    IF node.tag = "RangeTblRef" THEN node.rtindex ELSE LeftmostRTI(node.larg)

SortResult(err, targetList) == [err |-> err, targetList |-> targetList]

\* transformSortClause: an item naming a result column finds its entry, any
\* other expression is added as a resjunk entry, an unknown name fails
RECURSIVE transformSortClause(_, _)
transformSortClause(sortClause, targetList) ==
    IF sortClause = <<>> THEN SortResult(NoError, targetList)
    ELSE IF Head(sortClause) = "undefined" THEN SortResult(UNDEFINED_COLUMN, targetList)
    ELSE transformSortClause(Tail(sortClause),
            IF Head(sortClause) = "expr"
            THEN Append(targetList, TargetEntry(Len(targetList) + 1, TRUE))
            ELSE targetList)

list_truncate_Keep(list, new_size) == list

list_truncate(list, new_size) == SubSeq(list, 1, new_size)

SimpleMembers(maxCols, maxJunk) ==
    {SimpleMember(c, j, k) : c \in 1..maxCols, j \in 0..maxJunk, k \in BOOLEAN}

\* the set operations of up to three simple members
UnionTrees(maxCols, maxJunk) ==
    LET M == SimpleMembers(maxCols, maxJunk)
        U == {UnionMember(a, b, o) : a \in M, b \in M, o \in BOOLEAN}
    IN  {UnionMember(a, b, FALSE) : a \in M, b \in M}
        \cup {UnionMember(u, b, FALSE) : u \in U, b \in M}
        \cup {UnionMember(a, u, FALSE) : a \in M, u \in U}

SortClauses(maxSort) ==
    UNION {[1..n -> {"name", "expr", "undefined"}] : n \in 0..maxSort}

\* the range table and namespace on entry: empty, or OLD and NEW of a rule
EntryPstates ==
    {[p_rtable |-> <<>>, p_namespace |-> <<>>],
     [p_rtable |-> <<[rtekind |-> "RTE_RELATION"], [rtekind |-> "RTE_RELATION"]>>,
      p_namespace |-> <<1, 2>>]}

SetopInit ==
    /\ setopStmt \in UnionTrees(MaxCols, MaxJunk)
    /\ setopPstate \in EntryPstates
    /\ setopQry = NULL
    /\ sv = NULL
    /\ setopPc = "start"
    /\ setopErr = NoError

SetopIdle ==
    /\ setopStmt = NULL
    /\ setopPstate = NULL
    /\ setopQry = NULL
    /\ sv = NULL
    /\ setopPc = "idle"
    /\ setopErr = NoError

\* the clauses of the top level are taken off; a locking clause is refused
SetOpClauses ==
    /\ setopPc = "start"
    /\ \E lockingClause \in BOOLEAN :
        /\ sv' = [lockingClause |-> lockingClause]
        /\ IF lockingClause
           THEN setopPc' = "error" /\ setopErr' = FEATURE_NOT_SUPPORTED
           ELSE setopPc' = "clauses" /\ setopErr' = setopErr
    /\ UNCHANGED <<setopStmt, setopPstate, setopQry, nonSetopVars>>

\* the tree after transformSetOperationTree gave t: the target list of the
\* statement has one entry for each column of the root
SetOpTargets(t) ==
    IF t.err # NoError
    THEN /\ setopPc' = "error"
         /\ setopErr' = t.err
         /\ setopPstate' = [setopPstate EXCEPT !.p_rtable = t.rtable]
         /\ setopQry' = setopQry
    ELSE /\ setopPc' = "targets"
         /\ setopErr' = setopErr
         /\ setopPstate' = [setopPstate EXCEPT !.p_rtable = t.rtable]
         /\ setopQry' = [setOperations |-> t.node,
                         leftmostRTI |-> LeftmostRTI(t.node),
                         targetList |-> [i \in 1..Len(t.node.colTypes) |->
                                            TargetEntry(i, FALSE)],
                         rtable |-> <<>>]

SetOpTransformTree ==
    /\ setopPc = "clauses"
    /\ SetOpTargets(SetOpTree(setopStmt, setopPstate.p_rtable))
    /\ UNCHANGED <<setopStmt, sv, nonSetopVars>>

\* the join entry over the result columns is added and made the namespace
SetOpPushJoin ==
    /\ setopPc = "targets"
    /\ sv' = [lockingClause |-> sv.lockingClause,
              sv_rtable_length |-> Len(setopPstate.p_rtable),
              sv_namespace |-> setopPstate.p_namespace,
              tllen |-> Len(setopQry.targetList)]
    /\ setopPstate' = [p_rtable |-> Append(setopPstate.p_rtable,
                                           [rtekind |-> "RTE_JOIN"]),
                       p_namespace |-> <<Len(setopPstate.p_rtable) + 1>>]
    /\ setopPc' = "pushed"
    /\ UNCHANGED <<setopStmt, setopQry, setopErr, nonSetopVars>>

SetOpSorted(r) ==
    IF r.err # NoError
    THEN setopPc' = "error" /\ setopErr' = r.err /\ setopQry' = setopQry
    ELSE /\ setopPc' = "sorted"
         /\ setopErr' = setopErr
         /\ setopQry' = [setopQry EXCEPT !.targetList = r.targetList]

\* ORDER BY is resolved against the join entry
SetOpSortClause ==
    /\ setopPc = "pushed"
    /\ \E sortClause \in SortClauses(MaxSort) :
        SetOpSorted(transformSortClause(sortClause, setopQry.targetList))
    /\ UNCHANGED <<setopStmt, setopPstate, sv, nonSetopVars>>

\* the namespace is restored and the range table truncated; then the test
\* for target-list items ORDER BY added
SetOpRestore ==
    /\ setopPc = "sorted"
    /\ setopPstate' = [p_rtable |-> list_truncate(setopPstate.p_rtable,
                                                  sv.sv_rtable_length),
                       p_namespace |-> sv.sv_namespace]
    /\ IF sv.tllen # Len(setopQry.targetList)
       THEN setopPc' = "error" /\ setopErr' = FEATURE_NOT_SUPPORTED
       ELSE setopPc' = "restored" /\ setopErr' = setopErr
    /\ UNCHANGED <<setopStmt, setopQry, sv, nonSetopVars>>

\* LIMIT, qry->rtable and the rest
SetOpReturn ==
    /\ setopPc = "restored"
    /\ setopQry' = [setopQry EXCEPT !.rtable = setopPstate.p_rtable]
    /\ setopPc' = "done"
    /\ UNCHANGED <<setopStmt, setopPstate, sv, setopErr, nonSetopVars>>

SetopNext ==
    \/ SetOpClauses
    \/ SetOpTransformTree
    \/ SetOpPushJoin
    \/ SetOpSortClause
    \/ SetOpRestore
    \/ SetOpReturn

(***************************************************************************)
(* transformUpdateStmt: the target list                                    *)
(*                                                                         *)
(* The target table has the columns a and b.  A SET item is a ResTarget    *)
(* [name, entries]: the column named and the number of target entries      *)
(* transformTargetList makes of its value (one for an expression, as many  *)
(* as the relation has columns for a star).  junk is the number of        *)
(* resjunk entries the transformed list ends with.                         *)
(***************************************************************************)
relnatts == 2
InvalidAttrNumber == 0

ResTarget(name, entries) == [name |-> name, entries |-> entries]

UpdateStmt(targetList, junk) ==
    [tag |-> "UpdateStmt", targetList |-> targetList, junk |-> junk]

UpdTargetEntry(resno, resname, resjunk) ==
    [resno |-> resno, resname |-> resname, resjunk |-> resjunk]

\* attnameAttNum on the target relation
attnameAttNum(name) ==
    CASE name = "a" -> 1
      [] name = "b" -> 2
      [] OTHER -> InvalidAttrNumber

\* transformTargetList: the entries of each SET item in order, then the
\* resjunk entries, numbered as they are made
transformTargetList(stmt) ==
    LET names == SeqConcat([i \in 1..Len(stmt.targetList) |->
                    [k \in 1..stmt.targetList[i].entries |-> stmt.targetList[i].name]])
    IN  [i \in 1..(Len(names) + stmt.junk) |->
            IF i <= Len(names) THEN UpdTargetEntry(i, names[i], FALSE)
            ELSE UpdTargetEntry(i, "", TRUE)]

updateTargetListEntry_KeepResno(tle, colname, attrno) ==
    [tle EXCEPT !.resname = colname]

\* updateTargetListEntry binds the entry to the column
updateTargetListEntry(tle, colname, attrno) ==
    [tle EXCEPT !.resno = attrno, !.resname = colname]

JunkResno_Keep(resno, next_resno) == resno

\* tle->resno = (AttrNumber) pstate->p_next_resno++
JunkResno(resno, next_resno) == next_resno

UpdateLoopResult(err, targetList, next_resno, modifiedCols) ==
    [err |-> err, targetList |-> targetList, next_resno |-> next_resno,
     modifiedCols |-> modifiedCols]

\* the loop over qry->targetList: todo the entries not visited yet,
\* origTargetList the SET items not consumed yet
RECURSIVE UpdateLoop(_, _, _, _, _)
UpdateLoop(todo, origTargetList, done, next_resno, modifiedCols) ==
    IF todo = <<>>
    THEN UpdateLoopResult(IF origTargetList # <<>> THEN INTERNAL_ERROR ELSE NoError,
                          done, next_resno, modifiedCols)
    ELSE IF Head(todo).resjunk
    THEN UpdateLoop(Tail(todo), origTargetList,
                    Append(done, [Head(todo) EXCEPT !.resno = JunkResno(@, next_resno),
                                                    !.resname = ""]),
                    next_resno + 1, modifiedCols)
    ELSE IF origTargetList = <<>>
    THEN UpdateLoopResult(INTERNAL_ERROR, done, next_resno, modifiedCols)
    ELSE IF attnameAttNum(Head(origTargetList).name) = InvalidAttrNumber
    THEN UpdateLoopResult(UNDEFINED_COLUMN, done, next_resno, modifiedCols)
    ELSE UpdateLoop(Tail(todo), Tail(origTargetList),
                    Append(done,
                           updateTargetListEntry(Head(todo),
                               Head(origTargetList).name,
                               attnameAttNum(Head(origTargetList).name))),
                    next_resno,
                    modifiedCols \cup {attnameAttNum(Head(origTargetList).name)})

ResTargets(maxExpand) ==
    {ResTarget(n, e) : n \in {"a", "b", "c"}, e \in 0..maxExpand}

UpdateStmts(maxTargets, maxExpand) ==
    {UpdateStmt(t, j) :
        t \in UNION {[1..n -> ResTargets(maxExpand)] : n \in 1..maxTargets},
        j \in 0..MaxUpdJunk}

UpdateInit ==
    /\ updateStmt \in UpdateStmts(MaxTargets, MaxExpand)
    /\ updQry = NULL
    /\ updPstate = [p_next_resno |-> 1, modifiedCols |-> {}]
    /\ updPc = "start"
    /\ updErr = NoError

UpdateIdle ==
    /\ updateStmt = NULL
    /\ updQry = NULL
    /\ updPstate = NULL
    /\ updPc = "idle"
    /\ updErr = NoError

\* the SELECT-like processing: the target list is transformed
UpdateTargetList ==
    /\ updPc = "start"
    /\ updQry' = [commandType |-> "CMD_UPDATE",
                  targetList |-> transformTargetList(updateStmt)]
    /\ updPstate' = [updPstate EXCEPT
                        !.p_next_resno = Len(transformTargetList(updateStmt)) + 1]
    /\ updPc' = "targets"
    /\ UNCHANGED <<updateStmt, updErr, nonUpdateVars>>

UpdateAssigned(r) ==
    /\ updQry' = [updQry EXCEPT !.targetList =
                     r.targetList \o SubSeq(@, Len(r.targetList) + 1, Len(@))]
    /\ updPstate' = [p_next_resno |-> r.next_resno, modifiedCols |-> r.modifiedCols]
    /\ updErr' = r.err
    /\ updPc' = IF r.err # NoError THEN "error" ELSE "done"

\* the target list is matched with the UPDATE target columns
UpdateAssign ==
    /\ updPc = "targets"
    /\ UpdateAssigned(UpdateLoop(updQry.targetList, updateStmt.targetList, <<>>,
                                 IF updPstate.p_next_resno <= relnatts
                                 THEN relnatts + 1
                                 ELSE updPstate.p_next_resno,
                                 updPstate.modifiedCols))
    /\ UNCHANGED <<updateStmt, nonUpdateVars>>

UpdateNext ==
    \/ UpdateTargetList
    \/ UpdateAssign

(***************************************************************************)
(* transformSetOperationTree on an internal node: the loop over the pairs  *)
(* of columns of its two children, after the arity test.                   *)
(*                                                                         *)
(* A column is [type, typmod], what exprType and exprTypmod give for the   *)
(* expression of the target entry: int4, or varchar or bpchar without      *)
(* length or with one of two lengths.                                      *)
(***************************************************************************)
VARCHAROID == "VARCHAROID"
BPCHAROID == "BPCHAROID"
InvalidOid == "InvalidOid"
DATATYPE_MISMATCH == "ERRCODE_DATATYPE_MISMATCH"

Typmods == {-1, 14, 18}

ColExpr(type, typmod) == [type |-> type, typmod |-> typmod]

ColExprs ==
    {ColExpr(INT4OID, -1)}
        \cup {ColExpr(t, m) : t \in {VARCHAROID, BPCHAROID}, m \in Typmods}

\* the common type of two columns: the left one's among string types, none
\* for a string and a number
select_common_type(ltype, rtype) ==
    IF ltype = rtype THEN ltype
    ELSE IF INT4OID \in {ltype, rtype} THEN InvalidOid
    ELSE ltype

rescoltypmod_IgnoreType(lcol, rcol) ==
    IF lcol.typmod = rcol.typmod THEN lcol.typmod ELSE -1

\* if same type and same typmod, use typmod; else default
rescoltypmod(lcol, rcol) ==
    IF lcol.type = rcol.type /\ lcol.typmod = rcol.typmod
    THEN lcol.typmod
    ELSE -1

ColumnsInit ==
    /\ \E n \in 1..MaxCols :
        /\ ltargetlist \in [1..n -> ColExprs]
        /\ rtargetlist \in [1..n -> ColExprs]
    /\ colOp = [colTypes |-> <<>>, colTypmods |-> <<>>]
    /\ colTargetlist = <<>>
    /\ colPc = "loop"
    /\ colErr = NoError

ColumnsIdle ==
    /\ ltargetlist = <<>>
    /\ rtargetlist = <<>>
    /\ colOp = NULL
    /\ colTargetlist = <<>>
    /\ colPc = "idle"
    /\ colErr = NoError

\* one iteration of forboth(ltl, ltargetlist, rtl, rtargetlist) on the
\* columns lcol and rcol, rescoltype being their common type
SetOpColumnEmit(lcol, rcol, rescoltype) ==
    IF rescoltype = InvalidOid
    THEN /\ colPc' = "error"
         /\ colErr' = DATATYPE_MISMATCH
         /\ UNCHANGED <<colOp, colTargetlist>>
    ELSE /\ colOp' = [colTypes |-> Append(colOp.colTypes, rescoltype),
                      colTypmods |-> Append(colOp.colTypmods,
                                            rescoltypmod(lcol, rcol))]
         /\ colTargetlist' = Append(colTargetlist,
                                    ColExpr(rescoltype, rescoltypmod(lcol, rcol)))
         /\ UNCHANGED <<colPc, colErr>>

SetOpColumnPair ==
    /\ colPc = "loop"
    /\ Len(colOp.colTypes) < Len(ltargetlist)
    /\ LET i == Len(colOp.colTypes) + 1
       IN  SetOpColumnEmit(ltargetlist[i], rtargetlist[i],
                           select_common_type(ltargetlist[i].type,
                                              rtargetlist[i].type))
    /\ UNCHANGED <<ltargetlist, rtargetlist, nonColumnsVars>>

\* both lists are exhausted: the node is returned
SetOpColumnsReturn ==
    /\ colPc = "loop"
    /\ Len(colOp.colTypes) = Len(ltargetlist)
    /\ colPc' = "done"
    /\ UNCHANGED <<ltargetlist, rtargetlist, colOp, colTargetlist, colErr,
                   nonColumnsVars>>

ColumnsNext ==
    \/ SetOpColumnPair
    \/ SetOpColumnsReturn

(***************************************************************************)
(* transformSelectStmt on one simple SELECT: the order in which its        *)
(* clauses are transformed.                                                *)
(*                                                                         *)
(* The statement is [withClause, intoClause, distinctClause]: whether it   *)
(* has WITH and INTO, and "none", "DISTINCT" or "DISTINCT ON".  The macro  *)
(* ADB is fixed when the server is built; both builds are modelled.  The   *)
(* trace holds the transformers called, in order.                          *)
(***************************************************************************)
DistinctKinds == {"none", "DISTINCT", "DISTINCT ON"}

SimpleSelectStmt(withClause, intoClause, distinctClause) ==
    [withClause |-> withClause, intoClause |-> intoClause,
     distinctClause |-> distinctClause]

WhereFirst_ByGrammar(adb, grammar) == grammar = PARSE_GRAM_ORACLE

\* WHERE is transformed before the target list: #ifdef ADB
WhereFirst(adb, grammar) == adb

SelectInit ==
    /\ selStmt \in {SimpleSelectStmt(w, i, k) :
                        w \in BOOLEAN, i \in BOOLEAN, k \in DistinctKinds}
    /\ selGrammar \in ParseGrammar
    /\ ADB \in BOOLEAN
    /\ selTrace = <<>>
    /\ selPc = "start"
    /\ selErr = NoError

SelectIdle ==
    /\ selStmt = NULL
    /\ selGrammar = NULL
    /\ ADB = FALSE
    /\ selTrace = <<>>
    /\ selPc = "idle"
    /\ selErr = NoError

\* the transformer called is recorded and the function moves on
SelectStep(from, called, to) ==
    /\ selPc = from
    /\ selTrace' = selTrace \o called
    /\ selPc' = to
    /\ UNCHANGED <<selStmt, selGrammar, ADB, selErr, nonSelectVars>>

\* WITH is processed, INTO refused
SelectWithClause ==
    /\ selPc = "start"
    /\ selTrace' = IF selStmt.withClause
                   THEN Append(selTrace, "transformWithClause")
                   ELSE selTrace
    /\ IF selStmt.intoClause
       THEN selPc' = "error" /\ selErr' = SYNTAX_ERROR
       ELSE selPc' = "from" /\ selErr' = selErr
    /\ UNCHANGED <<selStmt, selGrammar, ADB, nonSelectVars>>

SelectFromClause ==
    SelectStep("from", <<"transformFromClause">>,
               IF WhereFirst(ADB, selGrammar) THEN "where" ELSE "targetlist")

\* WHERE, with the outer-join-marker rewrite where the build has it
SelectWhereClause ==
    SelectStep("where",
               IF ADB
               THEN <<"transformWhereClause", "transformFromAndWhere">>
               ELSE <<"transformWhereClause">>,
               IF WhereFirst(ADB, selGrammar) THEN "targetlist" ELSE "having")

SelectTargetList ==
    SelectStep("targetlist", <<"transformTargetList">>,
               IF WhereFirst(ADB, selGrammar) THEN "having" ELSE "where")

SelectHaving ==
    SelectStep("having", <<"transformHavingClause">>, "sort")

SelectSortClause ==
    SelectStep("sort", <<"transformSortClause">>, "group")

SelectGroupClause ==
    SelectStep("group", <<"transformGroupClause">>, "distinct")

SelectDistinctClause ==
    SelectStep("distinct",
               IF selStmt.distinctClause = "none" THEN <<>>
               ELSE IF selStmt.distinctClause = "DISTINCT"
               THEN <<"transformDistinctClause">>
               ELSE <<"transformDistinctOnClause">>,
               "limit")

SelectLimit ==
    SelectStep("limit", <<"transformLimitClause">>, "window")

SelectWindow ==
    SelectStep("window", <<"transformWindowDefinitions">>, "finish")

\* range table, join tree, aggregate check, locking clauses, collations
SelectReturn ==
    SelectStep("finish", <<>>, "done")

SelectNext ==
    \/ SelectWithClause
    \/ SelectFromClause
    \/ SelectWhereClause
    \/ SelectTargetList
    \/ SelectHaving
    \/ SelectSortClause
    \/ SelectGroupClause
    \/ SelectDistinctClause
    \/ SelectLimit
    \/ SelectWindow
    \/ SelectReturn

(***************************************************************************)
(* transformLockingClause on one Query.                                    *)
(*                                                                         *)
(* A Query is [rtable, rowMarks, hasForUpdate, distinctClause]; a range-   *)
(* table entry [rtekind, aliasname, subquery, requiredPerms], subquery     *)
(* being the Query of an RTE_SUBQUERY entry and requiredPerms telling      *)
(* whether ACL_SELECT_FOR_UPDATE is asked for.  Of the features            *)
(* CheckSelectLocking refuses, DISTINCT stands for all.  A LockingClause   *)
(* is [lockedRels, strength, noWait], lockedRels a list of RangeVars       *)
(* [qualified, relname].                                                   *)
(***************************************************************************)
UNDEFINED_TABLE == "ERRCODE_UNDEFINED_TABLE"

RTEKinds == {"RTE_RELATION", "RTE_SUBQUERY", "RTE_JOIN", "RTE_FUNCTION",
             "RTE_VALUES", "RTE_CTE"}

RangeTblEntry(rtekind, aliasname, subquery) ==
    [rtekind |-> rtekind, aliasname |-> aliasname, subquery |-> subquery,
     requiredPerms |-> FALSE]

LockQuery(rtable, distinctClause) ==
    [rtable |-> rtable, rowMarks |-> <<>>, hasForUpdate |-> FALSE,
     distinctClause |-> distinctClause]

RangeVar(qualified, relname) == [qualified |-> qualified, relname |-> relname]

LockingClause(lockedRels, strength, noWait) ==
    [lockedRels |-> lockedRels, strength |-> strength, noWait |-> noWait]

LockResult(err, qry) == [err |-> err, qry |-> qry]

CheckSelectLocking(qry) ==
    IF qry.distinctClause THEN FEATURE_NOT_SUPPORTED ELSE NoError

\* a clause we can pass down to subqueries to select all rels
AllRels(lc) == LockingClause(<<>>, lc.strength, lc.noWait)

FirstAliasMatch_Last(rtable, relname) ==
    IF \E i \in 1..Len(rtable) : rtable[i].aliasname = relname
    THEN CHOOSE i \in 1..Len(rtable) :
            /\ rtable[i].aliasname = relname
            /\ \A j \in (i + 1)..Len(rtable) : rtable[j].aliasname # relname
    ELSE 0

\* the index the inner foreach over qry->rtable stops at: the first entry
\* whose alias is relname, 0 when the loop runs to its end
FirstAliasMatch(rtable, relname) ==
    IF \E i \in 1..Len(rtable) : rtable[i].aliasname = relname
    THEN CHOOSE i \in 1..Len(rtable) :
            /\ rtable[i].aliasname = relname
            /\ \A j \in 1..(i - 1) : rtable[j].aliasname # relname
    ELSE 0

RECURSIVE transformLockingClause(_, _, _)
RECURSIVE LockAllRels(_, _, _, _)
RECURSIVE LockNamedRels(_, _, _, _)

\* the subquery of entry i has been gone through with result r
LockSubqueryDone(qry, i, r) ==
    LockResult(r.err, [qry EXCEPT !.rtable[i].subquery = r.qry])

\* entry i, an RTE_RELATION or RTE_SUBQUERY, gets its row-mark
LockEntry(qry, i, lc, pushedDown) ==
    LET a == applyLockingClause(qry.rowMarks, qry.hasForUpdate, i,
                                lc.strength, lc.noWait, pushedDown)
        marked == [qry EXCEPT !.rowMarks = a.rowMarks,
                              !.hasForUpdate = a.hasForUpdate]
    IN  IF qry.rtable[i].rtekind = "RTE_RELATION"
        THEN LockResult(NoError, [marked EXCEPT !.rtable[i].requiredPerms = TRUE])
        ELSE LockSubqueryDone(marked, i,
                 transformLockingClause(qry.rtable[i].subquery, AllRels(lc), TRUE))

LockAllNext(r, i, lc, pushedDown) ==
    IF r.err # NoError THEN r ELSE LockAllRels(r.qry, i + 1, lc, pushedDown)

\* all regular tables used in query, from entry i on
LockAllRels(qry, i, lc, pushedDown) ==
    IF i > Len(qry.rtable) THEN LockResult(NoError, qry)
    ELSE LockAllNext(IF qry.rtable[i].rtekind \in {"RTE_RELATION", "RTE_SUBQUERY"}
                     THEN LockEntry(qry, i, lc, pushedDown)
                     ELSE LockResult(NoError, qry),
                     i, lc, pushedDown)

\* one name of the list, i being the entry the search stopped at
LockNamedEntry(qry, i, lc, pushedDown) ==
    IF i = 0 THEN LockResult(UNDEFINED_TABLE, qry)
    ELSE IF qry.rtable[i].rtekind \in {"RTE_RELATION", "RTE_SUBQUERY"}
    THEN LockEntry(qry, i, lc, pushedDown)
    ELSE IF qry.rtable[i].rtekind \in {"RTE_JOIN", "RTE_FUNCTION", "RTE_VALUES", "RTE_CTE"}
    THEN LockResult(FEATURE_NOT_SUPPORTED, qry)
    ELSE LockResult(INTERNAL_ERROR, qry)

LockNamedNext(r, rels, lc, pushedDown) ==
    IF r.err # NoError THEN r ELSE LockNamedRels(r.qry, Tail(rels), lc, pushedDown)

\* just the named tables
LockNamedRels(qry, rels, lc, pushedDown) ==
    IF rels = <<>> THEN LockResult(NoError, qry)
    ELSE LockNamedNext(IF Head(rels).qualified
                       THEN LockResult(SYNTAX_ERROR, qry)
                       ELSE LockNamedEntry(qry,
                                FirstAliasMatch(qry.rtable, Head(rels).relname),
                                lc, pushedDown),
                       rels, lc, pushedDown)

transformLockingClause(qry, lc, pushedDown) ==
    IF CheckSelectLocking(qry) # NoError
    THEN LockResult(CheckSelectLocking(qry), qry)
    ELSE IF lc.lockedRels = <<>>
    THEN LockAllRels(qry, 1, lc, pushedDown)
    ELSE LockNamedRels(qry, lc.lockedRels, lc, pushedDown)

\* the subqueries met: over one relation, with DISTINCT or without, or over
\* a subquery and a join
SubQueries ==
    {LockQuery(<<RangeTblEntry("RTE_RELATION", "t", NULL)>>, FALSE),
     LockQuery(<<RangeTblEntry("RTE_RELATION", "t", NULL)>>, TRUE),
     LockQuery(<<RangeTblEntry("RTE_SUBQUERY", "s",
                    LockQuery(<<RangeTblEntry("RTE_RELATION", "t", NULL)>>, FALSE)),
                 RangeTblEntry("RTE_JOIN", "j", NULL)>>, FALSE)}

Entries ==
    {RangeTblEntry(k, a, NULL) : k \in RTEKinds \ {"RTE_SUBQUERY"}, a \in {"a", "b"}}
        \cup {RangeTblEntry("RTE_SUBQUERY", a, q) : a \in {"a", "b"}, q \in SubQueries}

LockQueries(maxEntries) ==
    {LockQuery(rt, d) : rt \in UNION {[1..n -> Entries] : n \in 0..maxEntries},
                        d \in BOOLEAN}

\* the names: of an entry, of no entry, schema-qualified
RangeVars == {RangeVar(FALSE, "a"), RangeVar(FALSE, "c"), RangeVar(TRUE, "a")}

LockingClauses(maxNames) ==
    {LockingClause(rels, s, w) :
        rels \in UNION {[1..n -> RangeVars] : n \in 0..maxNames},
        s \in {LCS_FORSHARE, LCS_FORUPDATE},
        w \in BOOLEAN}

LClauseInit ==
    /\ lcQry \in LockQueries(MaxEntries)
    /\ lcClause = NULL
    /\ lcPc = "start"
    /\ lcErr = NoError

LClauseIdle ==
    /\ lcQry = NULL
    /\ lcClause = NULL
    /\ lcPc = "idle"
    /\ lcErr = NoError

\* the statement transformer reaches foreach(l, stmt->lockingClause) with
\* one clause
LockingClauseTaken ==
    /\ lcPc = "start"
    /\ lcClause' \in LockingClauses(MaxNames)
    /\ lcPc' = "clause"
    /\ UNCHANGED <<lcQry, lcErr, nonLClauseVars>>

LockingTransformed(r) ==
    /\ lcQry' = r.qry
    /\ lcErr' = r.err
    /\ lcPc' = IF r.err = NoError THEN "done" ELSE "error"

TransformLockingClause ==
    /\ lcPc = "clause"
    /\ LockingTransformed(transformLockingClause(lcQry, lcClause, FALSE))
    /\ UNCHANGED <<lcClause, nonLClauseVars>>

LClauseNext ==
    \/ LockingClauseTaken
    \/ TransformLockingClause

(***************************************************************************)
(* transformDeleteStmt and transformUpdateStmt: the namespace item of the  *)
(* target relation around USING / FROM.                                    *)
(*                                                                         *)
(* The statement is [kind, withClause, fromClause]: fromClause the items   *)
(* of USING (DELETE) or FROM (UPDATE), each a relation or a sub-SELECT.    *)
(* The parse state holds the length of the range table and the namespace,  *)
(* a list of [p_rte, p_lateral_only, p_lateral_ok]; on entry the namespace *)
(* is empty or holds OLD and NEW of a rule.  The history dmlSeen records   *)
(* for each clause transformed the flags the target's item had then.       *)
(***************************************************************************)
NamespaceItem(rte, lateral_only, lateral_ok) ==
    [p_rte |-> rte, p_lateral_only |-> lateral_only, p_lateral_ok |-> lateral_ok]

DmlStmt(kind, withClause, fromClause) ==
    [kind |-> kind, withClause |-> withClause, fromClause |-> fromClause]

llast_First(list) == 1

\* the last cell of a list, as its position
llast(list) == Len(list)

\* an entry is appended to the range table and made a namespace item
addRTEtoQuery(ps) ==
    [p_rtable |-> ps.p_rtable + 1,
     p_namespace |-> Append(ps.p_namespace,
                            NamespaceItem(ps.p_rtable + 1, FALSE, TRUE))]

\* what the transformer of a clause sees of the item nsitem points to
Seen(clause) ==
    [clause |-> clause,
     p_lateral_only |-> dmlPstate.p_namespace[nsitem].p_lateral_only,
     p_lateral_ok |-> dmlPstate.p_namespace[nsitem].p_lateral_ok,
     p_rte |-> dmlPstate.p_namespace[nsitem].p_rte]

TargetStmts(maxFrom) ==
    {DmlStmt(k, w, f) :
        k \in {"DeleteStmt", "UpdateStmt"},
        w \in BOOLEAN,
        f \in UNION {[1..n -> {"RangeVar", "RangeSubselect"}] : n \in 0..maxFrom}}

DmlInit ==
    /\ dmlStmt \in TargetStmts(MaxFrom)
    /\ dmlPstate \in {[p_rtable |-> 0, p_namespace |-> <<>>],
                      [p_rtable |-> 2,
                       p_namespace |-> <<NamespaceItem(1, FALSE, TRUE),
                                         NamespaceItem(2, FALSE, TRUE)>>]}
    /\ resultRelation = 0
    /\ nsitem = 0
    /\ dmlSeen = <<>>
    /\ dmlPc = "start"

DmlIdle ==
    /\ dmlStmt = NULL
    /\ dmlPstate = NULL
    /\ resultRelation = 0
    /\ nsitem = 0
    /\ dmlSeen = <<>>
    /\ dmlPc = "idle"

\* WITH is processed independently of all else
DmlWithClause ==
    /\ dmlPc = "start"
    /\ dmlPc' = "target"
    /\ dmlSeen' = IF dmlStmt.withClause
                  THEN Append(dmlSeen, [clause |-> "WITH"])
                  ELSE dmlSeen
    /\ UNCHANGED <<dmlStmt, dmlPstate, resultRelation, nsitem, nonDmlVars>>

\* setTargetTable, and the namespace item it made is grabbed
DmlSetTargetTable ==
    /\ dmlPc = "target"
    /\ dmlPstate' = addRTEtoQuery(dmlPstate)
    /\ resultRelation' = dmlPstate.p_rtable + 1
    /\ nsitem' = llast(dmlPstate'.p_namespace)
    /\ dmlPc' = "hide"
    /\ UNCHANGED <<dmlStmt, dmlSeen, nonDmlVars>>

\* subqueries in USING / FROM cannot access the result relation
DmlHideTarget ==
    /\ dmlPc = "hide"
    /\ dmlPstate' = [dmlPstate EXCEPT !.p_namespace[nsitem].p_lateral_only = TRUE,
                                      !.p_namespace[nsitem].p_lateral_ok = FALSE]
    /\ dmlPc' = "from"
    /\ UNCHANGED <<dmlStmt, resultRelation, nsitem, dmlSeen, nonDmlVars>>

\* transformFromClause, one item of the list
DmlFromItem ==
    /\ dmlPc = "from"
    /\ LET done == Cardinality({i \in 1..Len(dmlSeen) : dmlSeen[i].clause = "FROM"})
       IN  /\ done < Len(dmlStmt.fromClause)
           /\ dmlSeen' = Append(dmlSeen, Seen("FROM"))
           /\ dmlPstate' = addRTEtoQuery(dmlPstate)
    /\ UNCHANGED <<dmlStmt, resultRelation, nsitem, dmlPc, nonDmlVars>>

\* remaining clauses can reference the result relation normally
DmlShowTarget ==
    /\ dmlPc = "from"
    /\ Cardinality({i \in 1..Len(dmlSeen) : dmlSeen[i].clause = "FROM"})
          = Len(dmlStmt.fromClause)
    /\ dmlPstate' = [dmlPstate EXCEPT !.p_namespace[nsitem].p_lateral_only = FALSE,
                                      !.p_namespace[nsitem].p_lateral_ok = TRUE]
    /\ dmlPc' = IF dmlStmt.kind = "UpdateStmt" THEN "targetlist" ELSE "where"
    /\ UNCHANGED <<dmlStmt, resultRelation, nsitem, dmlSeen, nonDmlVars>>

DmlClause(from, clause, to) ==
    /\ dmlPc = from
    /\ dmlSeen' = Append(dmlSeen, Seen(clause))
    /\ dmlPc' = to
    /\ UNCHANGED <<dmlStmt, dmlPstate, resultRelation, nsitem, nonDmlVars>>

\* UPDATE: the SET list
DmlTargetList == DmlClause("targetlist", "SET", "where")

DmlWhereClause == DmlClause("where", "WHERE", "returning")

DmlReturningList == DmlClause("returning", "RETURNING", "finish")

\* range table, join tree and the rest
DmlReturn ==
    /\ dmlPc = "finish"
    /\ dmlPc' = "done"
    /\ UNCHANGED <<dmlStmt, dmlPstate, resultRelation, nsitem, dmlSeen, nonDmlVars>>

DmlNext ==
    \/ DmlWithClause
    \/ DmlSetTargetTable
    \/ DmlHideTarget
    \/ DmlFromItem
    \/ DmlShowTarget
    \/ DmlTargetList
    \/ DmlWhereClause
    \/ DmlReturningList
    \/ DmlReturn

(***************************************************************************)
(* The mutual recursion of transformSetOperationStmt,                      *)
(* transformSetOperationTree and parse_sub_analyze on one set operation,   *)
(* as a call stack.                                                        *)
(*                                                                         *)
(* The parse tree is made of SimpleMember and UnionMember nodes; of the    *)
(* leaf-forcing clauses ORDER BY, LIMIT and WITH, sortClause stands for    *)
(* all.  A node is named by its path from the root, a sequence of "larg"   *)
(* and "rarg".  The tree is changed in place where the code clears the     *)
(* clauses of a statement.  A frame is [fn, path, pc].  The history        *)
(* recVisits records each call with the clauses its node carried then.     *)
(***************************************************************************)
RECURSIVE NodeAt(_, _)
NodeAt(tree, path) ==
    IF path = <<>> THEN tree
    ELSE NodeAt(IF Head(path) = "larg" THEN tree.larg ELSE tree.rarg, Tail(path))

RECURSIVE ReplaceAt(_, _, _)
ReplaceAt(tree, path, node) ==
    IF path = <<>> THEN node
    ELSE IF Head(path) = "larg"
    THEN [tree EXCEPT !.larg = ReplaceAt(tree.larg, Tail(path), node)]
    ELSE [tree EXCEPT !.rarg = ReplaceAt(tree.rarg, Tail(path), node)]

ClearTopClauses_Keep(stmt) == stmt

\* stmt->sortClause = NIL ... stmt->withClause = NULL
ClearTopClauses(stmt) == [stmt EXCEPT !.sortClause = FALSE, !.lockingClause = FALSE]

RecFrame(fn, path, pc) == [fn |-> fn, path |-> path, pc |-> pc]

Visit(fn, path, node) ==
    [fn |-> fn, path |-> path, sortClause |-> node.sortClause]

\* the frames a finite tree can need: the stack never gets this deep
StackCap == 4 * MaxMembers

RECURSIVE TreesOfSize(_)
TreesOfSize(n) ==
    IF n = 1 THEN {SimpleMember(1, 0, k) : k \in BOOLEAN}
    ELSE UNION {{UnionMember(a, b, o) :
                    a \in TreesOfSize(k), b \in TreesOfSize(n - k), o \in BOOLEAN} :
                k \in 1..(n - 1)}

RecTrees(maxMembers) == UNION {TreesOfSize(n) : n \in 2..maxMembers}

RecInit ==
    /\ recTree \in RecTrees(MaxMembers)
    /\ recStack = <<RecFrame("transformSetOperationStmt", <<>>, "strip")>>
    /\ recVisits = <<Visit("transformSetOperationStmt", <<>>, recTree)>>
    /\ recPc = "running"
    /\ recErr = NoError

RecIdle ==
    /\ recTree = NULL
    /\ recStack = <<>>
    /\ recVisits = <<>>
    /\ recPc = "idle"
    /\ recErr = NoError

RecTop == recStack[Len(recStack)]

RecAt(fn, pc) ==
    /\ recPc = "running"
    /\ recStack # <<>>
    /\ RecTop.fn = fn
    /\ RecTop.pc = pc

\* the frame on top moves on to pc
RecGoto(pc) ==
    /\ recStack' = [recStack EXCEPT ![Len(recStack)].pc = pc]
    /\ UNCHANGED <<recTree, recVisits, recPc, recErr>>

\* the frame on top calls fn on the node at path and will go on at pc
RecCall(fn, path, entry, pc) ==
    /\ Len(recStack) < StackCap
    /\ recStack' = Append([recStack EXCEPT ![Len(recStack)].pc = pc],
                          RecFrame(fn, path, entry))
    /\ recVisits' = Append(recVisits, Visit(fn, path, NodeAt(recTree, path)))
    /\ UNCHANGED <<recTree, recPc, recErr>>

\* the frame on top returns; the outermost return ends the analysis
RecPop ==
    /\ recStack' = SubSeq(recStack, 1, Len(recStack) - 1)
    /\ recPc' = IF Len(recStack) = 1 THEN "done" ELSE recPc
    /\ UNCHANGED <<recTree, recVisits, recErr>>

RecRaise(code) ==
    /\ recStack' = <<>>
    /\ recPc' = "error"
    /\ recErr' = code
    /\ UNCHANGED <<recTree, recVisits>>

\* transformSetOperationStmt takes the top-level clauses off its statement
\* and refuses a locking clause
RecStripClauses ==
    /\ RecAt("transformSetOperationStmt", "strip")
    /\ IF NodeAt(recTree, RecTop.path).lockingClause
       THEN /\ recTree' = ReplaceAt(recTree, RecTop.path,
                                    ClearTopClauses(NodeAt(recTree, RecTop.path)))
            /\ recStack' = <<>>
            /\ recPc' = "error"
            /\ recErr' = FEATURE_NOT_SUPPORTED
            /\ UNCHANGED recVisits
       ELSE /\ recTree' = ReplaceAt(recTree, RecTop.path,
                                    ClearTopClauses(NodeAt(recTree, RecTop.path)))
            /\ recStack' = [recStack EXCEPT ![Len(recStack)].pc = "tree"]
            /\ UNCHANGED <<recVisits, recPc, recErr>>
    /\ UNCHANGED nonRecVars

RecCallTree ==
    /\ RecAt("transformSetOperationStmt", "tree")
    /\ RecCall("transformSetOperationTree", RecTop.path, "check", "rest")
    /\ UNCHANGED nonRecVars

\* target list, ORDER BY, LIMIT and the rest
RecStmtReturn ==
    /\ RecAt("transformSetOperationStmt", "rest")
    /\ RecPop
    /\ UNCHANGED nonRecVars

\* the validity checks and the leaf test
RecTreeCheck ==
    /\ RecAt("transformSetOperationTree", "check")
    /\ LET stmt == NodeAt(recTree, RecTop.path)
       IN  IF stmt.lockingClause THEN RecRaise(FEATURE_NOT_SUPPORTED)
           ELSE IF stmt.op = "SETOP_NONE" \/ stmt.sortClause
           THEN RecGoto("leaf")
           ELSE RecGoto("larg")
    /\ UNCHANGED nonRecVars

RecLeafSubAnalyze ==
    /\ RecAt("transformSetOperationTree", "leaf")
    /\ RecCall("parse_sub_analyze", RecTop.path, "dispatch", "return")
    /\ UNCHANGED nonRecVars

RecLarg ==
    /\ RecAt("transformSetOperationTree", "larg")
    /\ RecCall("transformSetOperationTree", Append(RecTop.path, "larg"),
               "check", "rarg")
    /\ UNCHANGED nonRecVars

RecRarg ==
    /\ RecAt("transformSetOperationTree", "rarg")
    /\ RecCall("transformSetOperationTree", Append(RecTop.path, "rarg"),
               "check", "return")
    /\ UNCHANGED nonRecVars

RecTreeReturn ==
    /\ RecAt("transformSetOperationTree", "return")
    /\ RecPop
    /\ UNCHANGED nonRecVars

\* parse_sub_analyze: transformStmt sends a simple SELECT to
\* transformSelectStmt and a set operation to transformSetOperationStmt
RecDispatch ==
    /\ RecAt("parse_sub_analyze", "dispatch")
    /\ IF NodeAt(recTree, RecTop.path).op = "SETOP_NONE"
       THEN RecGoto("select")
       ELSE RecCall("transformSetOperationStmt", RecTop.path, "strip", "return")
    /\ UNCHANGED nonRecVars

RecSelectStmt ==
    /\ RecAt("parse_sub_analyze", "select")
    /\ RecGoto("return")
    /\ UNCHANGED nonRecVars

RecSubReturn ==
    /\ RecAt("parse_sub_analyze", "return")
    /\ RecPop
    /\ UNCHANGED nonRecVars

RecNext ==
    \/ RecStripClauses
    \/ RecCallTree
    \/ RecStmtReturn
    \/ RecTreeCheck
    \/ RecLeafSubAnalyze
    \/ RecLarg
    \/ RecRarg
    \/ RecTreeReturn
    \/ RecDispatch
    \/ RecSelectStmt
    \/ RecSubReturn

(***************************************************************************)
(* is_relation_child and its call in transformInsertStmt                   *)
(*                                                                         *)
(* An entry is a relation [rtekind, relid, inh], a sub-query               *)
(* [rtekind, subquery] whose subquery has an rtable, or of another kind.   *)
(* pg_inherits holds the pairs <<parent, child>> of the catalog.           *)
(***************************************************************************)
RelationRTE(relid, inh) ==
    [rtekind |-> "RTE_RELATION", relid |-> relid, inh |-> inh]

SubqueryRTE(subrtable) ==
    [rtekind |-> "RTE_SUBQUERY", subquery |-> [rtable |-> subrtable]]

FunctionRTE == [rtekind |-> "RTE_FUNCTION"]

pg_inherits == {<<"parent", "child">>}

\* !parent_rte->inh, rtekind, has_subclass and the scan of pg_inherits
is_rel_child_of_rel(child, parent) ==
    /\ parent.inh
    /\ parent.rtekind = "RTE_RELATION"
    /\ <<parent.relid, child.relid>> \in pg_inherits

\* the foreach loop from entry i on: a relation that is a parent ends it
\* with true, a sub-query ends it with the answer for its own rtable
RECURSIVE RelationChildFrom(_, _, _)
RelationChildFrom(child, entries, i) ==
    IF i > Len(entries) THEN FALSE
    ELSE IF entries[i].rtekind = "RTE_RELATION"
    THEN IF is_rel_child_of_rel(child, entries[i]) THEN TRUE
         ELSE RelationChildFrom(child, entries, i + 1)
    ELSE IF entries[i].rtekind = "RTE_SUBQUERY"
    THEN RelationChildFrom(child, entries[i].subquery.rtable, 1)
    ELSE RelationChildFrom(child, entries, i + 1)

is_relation_child(child, entries) ==
    IF child = NULL \/ entries = <<>> THEN FALSE
    ELSE IF child.rtekind # "RTE_RELATION" THEN FALSE
    ELSE RelationChildFrom(child, entries, 1)

RelationEntries ==
    {RelationRTE(relid, inh) : relid \in {"parent", "other"}, inh \in BOOLEAN}
        \cup {FunctionRTE}

InnerRtables(maxSub) == SeqsUpTo(RelationEntries, maxSub)

MidRtables(maxSub) ==
    SeqsUpTo(RelationEntries \cup {SubqueryRTE(t) : t \in InnerRtables(maxSub)},
             maxSub)

SelectRtables(maxEntries, maxSub) ==
    SeqsUpTo(RelationEntries \cup {SubqueryRTE(t) : t \in MidRtables(maxSub)},
             maxEntries)

TargetRtes == {NULL, FunctionRTE, RelationRTE("child", TRUE),
               RelationRTE("other", TRUE)}

ChildInit ==
    /\ target_rte \in TargetRtes
    /\ selectRtable \in SelectRtables(MaxSelectEntries, MaxSubEntries)
    /\ onCoordinator \in BOOLEAN
    /\ has_to_save_cmd_id = FALSE
    /\ childResult = NULL
    /\ childPc = "source"

ChildIdle ==
    /\ target_rte = NULL
    /\ selectRtable = <<>>
    /\ onCoordinator = FALSE
    /\ has_to_save_cmd_id = FALSE
    /\ childResult = NULL
    /\ childPc = "idle"

\* IS_PGXC_COORDINATOR && !IsConnFromCoord(): the target is looked up in
\* the range table of the source SELECT
InsertCheckChild ==
    /\ childPc = "source"
    /\ onCoordinator
    /\ childResult' = is_relation_child(target_rte, selectRtable)
    /\ has_to_save_cmd_id' = childResult'
    /\ childPc' = "done"
    /\ UNCHANGED <<target_rte, selectRtable, onCoordinator>>
    /\ UNCHANGED nonChildVars

\* on a datanode, or on a connection from a coordinator, nothing is looked up
InsertSkipChild ==
    /\ childPc = "source"
    /\ ~onCoordinator
    /\ childPc' = "done"
    /\ UNCHANGED <<target_rte, selectRtable, onCoordinator,
                   has_to_save_cmd_id, childResult>>
    /\ UNCHANGED nonChildVars

ChildNext ==
    \/ InsertCheckChild
    \/ InsertSkipChild

vars == <<lockVars, entryVars, queryVars, dispatchVars, insertVars, execVars, setopVars,
         updateVars,
         columnsVars,
         selectVars,
         lclauseVars,
         dmlVars,
         recVars,
         childVars>>

InitLock == LockInit /\ EntryIdle /\ QueryIdle /\ DispatchIdle /\ InsertIdle /\ ExecIdle /\ SetopIdle /\ UpdateIdle /\ ColumnsIdle /\ SelectIdle /\ LClauseIdle /\ DmlIdle /\ RecIdle /\ ChildIdle
NextLock == ApplyLockingClause
SpecLock == InitLock /\ [][NextLock]_vars

InitEntry == EntryInit /\ LockIdle /\ QueryIdle /\ DispatchIdle /\ InsertIdle /\ ExecIdle /\ SetopIdle /\ UpdateIdle /\ ColumnsIdle /\ SelectIdle /\ LClauseIdle /\ DmlIdle /\ RecIdle /\ ChildIdle
SpecEntry == InitEntry /\ [][EntryNext]_vars

InitQuery == QueryInit /\ LockIdle /\ EntryIdle /\ DispatchIdle /\ InsertIdle /\ ExecIdle /\ SetopIdle /\ UpdateIdle /\ ColumnsIdle /\ SelectIdle /\ LClauseIdle /\ DmlIdle /\ RecIdle /\ ChildIdle
SpecQuery == InitQuery /\ [][QueryNext]_vars

InitDispatch == DispatchInit /\ LockIdle /\ EntryIdle /\ QueryIdle /\ InsertIdle /\ ExecIdle /\ SetopIdle /\ UpdateIdle /\ ColumnsIdle /\ SelectIdle /\ LClauseIdle /\ DmlIdle /\ RecIdle /\ ChildIdle
SpecDispatch == InitDispatch /\ [][DispatchNext]_vars

InitInsert == InsertInit /\ LockIdle /\ EntryIdle /\ QueryIdle /\ DispatchIdle /\ ExecIdle /\ SetopIdle /\ UpdateIdle /\ ColumnsIdle /\ SelectIdle /\ LClauseIdle /\ DmlIdle /\ RecIdle /\ ChildIdle
SpecInsert == InitInsert /\ [][InsertNext]_vars

InitExecDirect == ExecInit /\ LockIdle /\ EntryIdle /\ QueryIdle /\ DispatchIdle /\ InsertIdle /\ SetopIdle /\ UpdateIdle /\ ColumnsIdle /\ SelectIdle /\ LClauseIdle /\ DmlIdle /\ RecIdle /\ ChildIdle
SpecExecDirect == InitExecDirect /\ [][ExecNext]_vars

InitSetOp == SetopInit /\ LockIdle /\ EntryIdle /\ QueryIdle /\ DispatchIdle /\ InsertIdle /\ ExecIdle /\ UpdateIdle /\ ColumnsIdle /\ SelectIdle /\ LClauseIdle /\ DmlIdle /\ RecIdle /\ ChildIdle
SpecSetOp == InitSetOp /\ [][SetopNext]_vars

InitUpdate == UpdateInit /\ LockIdle /\ EntryIdle /\ QueryIdle /\ DispatchIdle /\ InsertIdle /\ ExecIdle /\ SetopIdle /\ ColumnsIdle /\ SelectIdle /\ LClauseIdle /\ DmlIdle /\ RecIdle /\ ChildIdle
SpecUpdate == InitUpdate /\ [][UpdateNext]_vars

InitSetOpColumns == ColumnsInit /\ LockIdle /\ EntryIdle /\ QueryIdle /\ DispatchIdle /\ InsertIdle /\ ExecIdle /\ SetopIdle /\ UpdateIdle /\ SelectIdle /\ LClauseIdle /\ DmlIdle /\ RecIdle /\ ChildIdle
SpecSetOpColumns == InitSetOpColumns /\ [][ColumnsNext]_vars

InitSelect == SelectInit /\ LockIdle /\ EntryIdle /\ QueryIdle /\ DispatchIdle /\ InsertIdle /\ ExecIdle /\ SetopIdle /\ UpdateIdle /\ ColumnsIdle /\ LClauseIdle /\ DmlIdle /\ RecIdle /\ ChildIdle
SpecSelect == InitSelect /\ [][SelectNext]_vars

InitLClause == LClauseInit /\ LockIdle /\ EntryIdle /\ QueryIdle /\ DispatchIdle /\ InsertIdle /\ ExecIdle /\ SetopIdle /\ UpdateIdle /\ ColumnsIdle /\ SelectIdle /\ DmlIdle /\ RecIdle /\ ChildIdle
SpecLClause == InitLClause /\ [][LClauseNext]_vars

InitDml == DmlInit /\ LockIdle /\ EntryIdle /\ QueryIdle /\ DispatchIdle /\ InsertIdle /\ ExecIdle /\ SetopIdle /\ UpdateIdle /\ ColumnsIdle /\ SelectIdle /\ LClauseIdle /\ RecIdle /\ ChildIdle
SpecDml == InitDml /\ [][DmlNext]_vars

InitRecursion == RecInit /\ LockIdle /\ EntryIdle /\ QueryIdle /\ DispatchIdle /\ InsertIdle /\ ExecIdle /\ SetopIdle /\ UpdateIdle /\ ColumnsIdle /\ SelectIdle /\ LClauseIdle /\ DmlIdle /\ ChildIdle
SpecRecursion == InitRecursion /\ [][RecNext]_vars

InitChild == ChildInit /\ LockIdle /\ EntryIdle /\ QueryIdle /\ DispatchIdle /\ InsertIdle /\ ExecIdle /\ SetopIdle /\ UpdateIdle /\ ColumnsIdle /\ SelectIdle /\ LClauseIdle /\ DmlIdle /\ RecIdle
SpecChild == InitChild /\ [][ChildNext]_vars
FairRecursion == SpecRecursion /\ WF_vars(RecNext)

(***************************************************************************)
(* Properties of the analysis of one statement                             *)
(***************************************************************************)
Analysed == qpc \in {"transformed", "joinon", "rownum", "done"}
Rewritten == entryPoint = ForGram /\ qpc \in {"rownum", "done"}

RECURSIVE NodeHasMarker(_)
NodeHasMarker(node) ==
    /\ node.tag = "JoinExpr"
    /\ \/ have_ora_column_join(node.quals)
       \/ NodeHasMarker(node.larg)
       \/ NodeHasMarker(node.rarg)

JoinTreeHasMarker(jointree) ==
    \/ have_ora_column_join(jointree.quals)
    \/ \E i \in 1..Len(jointree.fromlist) : NodeHasMarker(jointree.fromlist[i])

\* C5: once an entry point has returned the Query of any statement, no
\* qualifier of its join tree (the FromExpr's, any JoinExpr's) holds a
\* ColumnRefJoin
C5_NoMarkerAfterAnalysis ==
    qpc = "done" => ~JoinTreeHasMarker(query.jointree)

\* FROM t1, t2, t3 WHERE t1.a = t2.a(+) AND t2.b(+) = t3.b
C6_Input ==
    PlainStmt("SelectStmt", RefList(3),
              <<OpExpr("=", Var(1), ColumnRefJoin(2)),
                OpExpr("=", ColumnRefJoin(2), Var(3))>>)

C6_OnT1T2 == <<OpExpr("=", Var(1), Var(2))>>
C6_OnT2T3 == <<OpExpr("=", Var(2), Var(3))>>

\* (t1 LEFT JOIN t2 ON t1.a = t2.a) LEFT JOIN t3, or its associative variant
\* t1 LEFT JOIN (t2 LEFT JOIN t3)
C6_ClaimedTree(node) ==
    /\ node.tag = "JoinExpr"
    /\ node.jointype = JOIN_LEFT
    /\ \/ /\ node.larg.tag = "JoinExpr"
          /\ node.larg.jointype = JOIN_LEFT
          /\ node.larg.larg = RangeTblRef(1)
          /\ node.larg.rarg = RangeTblRef(2)
          /\ node.larg.quals = C6_OnT1T2
          /\ node.rarg = RangeTblRef(3)
       \/ /\ node.larg = RangeTblRef(1)
          /\ node.rarg.tag = "JoinExpr"
          /\ node.rarg.jointype = JOIN_LEFT
          /\ node.rarg.larg = RangeTblRef(2)
          /\ node.rarg.rarg = RangeTblRef(3)

PlainQuery ==
    Query(CASE parseTree.kind = "SelectStmt" -> "CMD_SELECT"
            [] parseTree.kind = "DeleteStmt" -> "CMD_DELETE"
            [] parseTree.kind = "UpdateStmt" -> "CMD_UPDATE"
            [] OTHER -> "CMD_INSERT",
          makeFromExpr(parseTree.fromClause, parseTree.whereClause), parseTree)

IsIntConst(node) ==
    /\ node.tag = "Const"
    /\ ~node.constisnull
    /\ node.consttype \in {INT8OID, INT4OID, INT2OID}

\* conjunct i is the only one holding ROWNUM
OnlyRownumPred(quals, i) ==
    /\ i \in 1..Len(quals)
    /\ contain_rownum(<<quals[i]>>)
    /\ \A j \in 1..Len(quals) : j # i => ~contain_rownum(<<quals[j]>>)

\* ROWNUM <= k, k an integer constant above 0
IsRownumLimit(e) ==
    /\ e.tag = "OpExpr"
    /\ e.opname = "<="
    /\ e.args[1].tag = "RownumExpr"
    /\ IsIntConst(e.args[2])
    /\ e.args[2].val > 0

\* C7: a query with no limit and no offset whose only ROWNUM conjunct is
\* ROWNUM <= k (integer constant k > 0) gets limitCount k, keeps limitOffset
\* null and exactly the other conjuncts as WHERE, and returns on every table
\* the rows the original returns
C7_RownumLimitPreservesResult ==
    \A i \in 1..MaxWhere :
        ( /\ Rewritten
          /\ parseTree.kind = "SelectStmt"
          /\ parseTree.limitCount = NULL
          /\ parseTree.limitOffset = NULL
          /\ OnlyRownumPred(parseTree.whereClause, i)
          /\ IsRownumLimit(parseTree.whereClause[i]) ) =>
            /\ query.limitCount = parseTree.whereClause[i].args[2]
            /\ query.limitOffset = NULL
            /\ query.jointree.quals = RemoveAt(parseTree.whereClause, i)
            /\ \A rows \in Tables :
                  BagOfSeq(ExecQuery(query, rows)) = BagOfSeq(ExecQuery(PlainQuery, rows))

\* ROWNUM <= k with k <= 0, or ROWNUM < k with k <= 1
IsEmptyingPred(e) ==
    /\ e.tag = "OpExpr"
    /\ e.args[1].tag = "RownumExpr"
    /\ IsIntConst(e.args[2])
    /\ \/ e.opname = "<=" /\ e.args[2].val <= 0
       \/ e.opname = "<" /\ e.args[2].val <= 1

\* C8: when the only ROWNUM conjunct of a query with no limit and no offset
\* makes the result empty, the rewritten query has limitCount 0 and a null
\* qualifier
C8_EmptyResultDropsPredicates ==
    \A i \in 1..MaxWhere :
        ( /\ Rewritten
          /\ parseTree.limitCount = NULL
          /\ parseTree.limitOffset = NULL
          /\ OnlyRownumPred(parseTree.whereClause, i)
          /\ IsEmptyingPred(parseTree.whereClause[i]) ) =>
            /\ query.limitCount = make_int8_const(0)
            /\ query.jointree.quals = <<>>

InsertTargetInNamespace ==
    \E k \in 1..Len(pstate.p_namespace) : pstate.p_namespace[k].p_rte = 1

StmtHasDialectNode ==
    \/ have_ora_column_join(parseTree.whereClause)
    \/ contain_rownum(parseTree.whereClause)
    \/ \E i \in 1..Len(parseTree.fromClause) : NodeHasMarker(parseTree.fromClause[i])

MarkerRewriteRan ==
    /\ parseTree.kind = "SelectStmt"
    /\ Len(parseTree.fromClause) > 1
    /\ have_ora_column_join(parseTree.whereClause)
    /\ Analysed

\* C16: the rewrite partitions the WHERE conjuncts by marker presence: every
\* conjunct that mentions no marker remains in the WHERE qualifier returned
\* by the rewrite
C16_PlainConjunctsStayInWhere ==
    MarkerRewriteRan =>
        \A i \in 1..Len(parseTree.whereClause) :
            HasNoMarker(parseTree.whereClause[i]) =>
                \E j \in 1..Len(query.jointree.quals) :
                    query.jointree.quals[j] = parseTree.whereClause[i]

\* the explicit joins of two relations in a FROM list
ExplicitJoins(fromClause) ==
    {fromClause[i] : i \in {k \in 1..Len(fromClause) : fromClause[k].tag = "JoinExpr"}}

\* conjunct e has both its tables inside the explicit join
BothInside(e, join) ==
    LET info == get_ora_column_join(<<e>>)
    IN  /\ info.err = NoError
        /\ info.lrtindex # info.rrtindex
        /\ {info.lrtindex, info.rrtindex} = {join.larg.rtindex, join.rarg.rtindex}

\* the marker of conjunct e makes nullable a table the explicit join preserves
MarkerAgainstJoin(e, join) ==
    LET info == get_ora_column_join(<<e>>)
    IN  /\ HasMarker(e)
        /\ BothInside(e, join)
        /\ \/ join.jointype = JOIN_INNER
           \/ info.rrtindex = join.larg.rtindex /\ join.jointype = JOIN_LEFT
           \/ info.rrtindex = join.rarg.rtindex /\ join.jointype = JOIN_RIGHT

\* C17: a SELECT whose WHERE holds a marker that conflicts with the direction
\* of an explicit JOIN holding both tables of the predicate is rejected with
\* an error
C17_MarkerAgainstJoinRejected ==
    ( /\ parseTree.kind = "SelectStmt"
      /\ qpc \notin {"idle", "start"}
      /\ \E join \in ExplicitJoins(parseTree.fromClause) :
            \E i \in 1..Len(parseTree.whereClause) :
                MarkerAgainstJoin(parseTree.whereClause[i], join) )
    => qpc = "error"

\* C18: a predicate both of whose endpoints lie inside an existing JoinExpr
\* is ANDed into its quals only if the predicate's join type and the join's
\* type agree; where they disagree the rewrite fails
C18_FusedOnlyIfTypesAgree ==
    ( /\ parseTree.kind = "SelectStmt"
      /\ Len(parseTree.fromClause) > 1
      /\ have_ora_column_join(parseTree.whereClause)
      /\ qpc \notin {"idle", "start"}
      /\ \E join \in ExplicitJoins(parseTree.fromClause) :
            \E i \in 1..Len(parseTree.whereClause) :
                /\ BothInside(parseTree.whereClause[i], join)
                /\ get_ora_column_join(<<parseTree.whereClause[i]>>).type
                      # join.jointype )
    => qpc = "error"

\* the RangeTblRef leaves of a join tree, left to right
RECURSIVE NodeRefs(_)
NodeRefs(node) ==
    IF node.tag = "RangeTblRef" THEN <<node.rtindex>>
    ELSE NodeRefs(node.larg) \o NodeRefs(node.rarg)

ListRefs(fromlist) == SeqConcat([i \in 1..Len(fromlist) |-> NodeRefs(fromlist[i])])

\* conjunct e names one table on both sides, once with a marker: its second
\* endpoint is not to be found in any join list
EndpointMissing(e) ==
    LET info == get_ora_column_join(<<e>>)
    IN  /\ info.err = NoError
        /\ info.lrtindex # 0
        /\ info.lrtindex = info.rrtindex

C20_Normal(e) ==
    IF e.args[2].tag = "RownumExpr"
    THEN [ok |-> e.opname # "" /\ get_commutator(e.opname) # "",
          op |-> get_commutator(e.opname), l |-> e.args[2], r |-> e.args[1]]
    ELSE [ok |-> e.opname # "", op |-> e.opname, l |-> e.args[1], r |-> e.args[2]]

\* the conjunct would give the query a limitCount
C20_Produces(e) ==
    LET n == C20_Normal(e)
    IN  /\ n.ok /\ n.l.tag = "RownumExpr" /\ IsIntConst(n.r)
        /\ \/ n.op = "<=" /\ n.r.val > 0
           \/ n.op = "<" /\ n.r.val > 1
           \/ n.op = "<>" /\ n.r.val > 0

\* the conjunct makes the result empty
C20_Empties(e) ==
    LET n == C20_Normal(e)
    IN  /\ n.ok /\ n.l.tag = "RownumExpr" /\ IsIntConst(n.r)
        /\ \/ n.op = "<=" /\ n.r.val <= 0
           \/ n.op = "<" /\ n.r.val <= 1

\* the conjunct is a tautology the rewrite drops
C20_Tautology(e) ==
    LET n == C20_Normal(e)
    IN  /\ n.ok /\ n.l.tag = "RownumExpr"
        /\ \/ n.op = "=" /\ n.r.tag = "RownumExpr"
           \/ /\ IsIntConst(n.r)
              /\ \/ n.op = "<>" /\ n.r.val <= 0
                 \/ n.op = ">=" /\ n.r.val = 1
                 \/ n.op = ">" /\ n.r.val = 0

\* the rewrite abandons at conjunct j: it is a ROWNUM conjunct of no accepted
\* form or the second one to give a limitCount, and no earlier conjunct made
\* the result empty
C20_AbandonsAt(quals, j) ==
    /\ contain_rownum(<<quals[j]>>)
    /\ \/ ~(C20_Produces(quals[j]) \/ C20_Empties(quals[j]) \/ C20_Tautology(quals[j]))
       \/ /\ C20_Produces(quals[j])
          /\ \E i \in 1..(j - 1) : C20_Produces(quals[i])
    /\ \A i \in 1..(j - 1) : ~C20_Empties(quals[i])

\* C20: when the ROWNUM rewrite abandons it raises no error and leaves the
\* query untouched: limitCount and limitOffset stay null and every original
\* conjunct is still in WHERE
C20_AbandonLeavesQueryUntouched ==
    ( /\ Rewritten
      /\ parseTree.kind = "SelectStmt"
      /\ parseTree.limitCount = NULL
      /\ parseTree.limitOffset = NULL
      /\ \E j \in 1..Len(parseTree.whereClause) :
            C20_AbandonsAt(parseTree.whereClause, j) )
    => /\ qerr = NoError
       /\ query.limitCount = NULL
       /\ query.limitOffset = NULL
       /\ query.jointree.quals = parseTree.whereClause

\* ROWNUM < 2 AND ROWNUM <= 1 went through the rewrite
C20_Witness ==
    /\ Rewritten
    /\ parseTree.kind = "SelectStmt"
    /\ parseTree.limitCount = NULL
    /\ parseTree.limitOffset = NULL
    /\ parseTree.whereClause = <<OpExpr("<", RownumExpr, Const(INT4OID, 2)),
                                 OpExpr("<=", RownumExpr, Const(INT4OID, 1))>>
    /\ qpc = "done"

\* the Query is what the steps parse_analyze_for_gram runs after the
\* transformation give for it, r being the result of the join-ON check
C23_PostStepsGive(r) ==
    /\ r.err = NoError
    /\ rewrite_rownum_query([query EXCEPT !.jointree = r.node]) = query

\* C23: the variable-parameter entry applies the same post-transformation
\* steps as the fixed-parameter entry: the Query it returns is the one the
\* join-ON marker check/strip and the ROWNUM rewrite give, so either entry
\* yields the same query tree
C23_SameQueryThroughEitherEntry ==
    (qpc = "done" /\ entryPoint = VarparamsForGram) =>
        C23_PostStepsGive(check_joinon_column_join_from(query.jointree))

(***************************************************************************)
(* Properties of the dispatch of a statement tree                          *)
(***************************************************************************)
DispatchFinished == dpc \in {"done", "error"}

\* the statement is a SELECT whose leftmost leaf carries INTO
C10_TopLevelInto(stmt) ==
    /\ stmt.kind = "SelectStmt"
    /\ LeftmostLeaf(stmt).intoClause

\* some SELECT of the tree carries INTO elsewhere than on the leftmost leaf of
\* a statement handed to transformTopLevelStmt (atTop)
RECURSIVE C10_NestedInto(_, _)
C10_NestedInto(stmt, atTop) ==
    IF stmt = NULL THEN FALSE
    ELSE IF stmt.kind = "SelectStmt"
    THEN IF stmt.op = "SETOP_NONE"
         THEN (stmt.intoClause /\ ~atTop) \/ C10_NestedInto(stmt.fromSub, FALSE)
         ELSE C10_NestedInto(stmt.larg, atTop) \/ C10_NestedInto(stmt.rarg, FALSE)
    ELSE IF stmt.kind = "ExplainStmt" THEN C10_NestedInto(stmt.query, TRUE)
    ELSE IF stmt.kind \in {"DeclareCursorStmt", "CreateTableAsStmt"}
    THEN C10_NestedInto(stmt.query, FALSE)
    ELSE IF stmt.kind = "InsertStmt" THEN C10_NestedInto(stmt.selectStmt, FALSE)
    ELSE FALSE

\* some SELECT of the tree carries both INTO and a WITH clause that
\* transformWithClause rejects
RECURSIVE C10_IntoUnderRejectedWith(_)
C10_IntoUnderRejectedWith(stmt) ==
    IF stmt = NULL THEN FALSE
    ELSE IF stmt.kind = "SelectStmt"
    THEN IF stmt.op = "SETOP_NONE"
         THEN (stmt.intoClause /\ stmt.withClause = "rejected")
              \/ C10_IntoUnderRejectedWith(stmt.fromSub)
         ELSE C10_IntoUnderRejectedWith(stmt.larg)
              \/ C10_IntoUnderRejectedWith(stmt.rarg)
    ELSE IF stmt.kind \in {"ExplainStmt", "DeclareCursorStmt", "CreateTableAsStmt"}
    THEN C10_IntoUnderRejectedWith(stmt.query)
    ELSE IF stmt.kind = "InsertStmt" THEN C10_IntoUnderRejectedWith(stmt.selectStmt)
    ELSE FALSE

\* the lift at the top level: a SELECT whose leftmost leaf carries INTO is
\* handed on as CREATE TABLE AS over the SELECT with INTO cleared and, when
\* the analysis succeeds, comes out as a UTILITY query wrapping it; nothing
\* else is handed on as a lifted SELECT INTO
C10_LiftAtTopLevel ==
    /\ (dpc # "start" /\ C10_TopLevelInto(dtree)) =>
          /\ dstmt.kind = "CreateTableAsStmt"
          /\ dstmt.is_select_into
          /\ ~LeftmostLeaf(dstmt.query).intoClause
          /\ dpc = "done" =>
                /\ dresult.query.commandType = "CMD_UTILITY"
                /\ dresult.query.utilityStmt.kind = "CreateTableAsStmt"
                /\ dresult.query.utilityStmt.is_select_into
                /\ dresult.query.utilityStmt.query.commandType = "CMD_SELECT"
    /\ (dpc # "start" /\ ~C10_TopLevelInto(dtree)) => dstmt = dtree

\* the lift is not applied to a nested SELECT: a statement with INTO on a
\* nested SELECT is never analysed with success
C10_NoLiftOfNested ==
    (DispatchFinished /\ C10_NestedInto(dtree, TRUE)) => dpc = "error"

\* C10: SELECT ... INTO is lifted to CREATE TABLE AS only by the top-level
\* dispatcher (leftmost leaf carries INTO: the result is a UTILITY query
\* wrapping CREATE TABLE AS over a SELECT with INTO cleared), the lift is never
\* applied to a nested SELECT, and any SELECT still carrying INTO that reaches
\* a statement transformer fails with SYNTAX_ERROR.
C10_IntoReachedFailsWithSyntaxError ==
    /\ C10_LiftAtTopLevel
    /\ C10_NoLiftOfNested
    /\ (DispatchFinished /\ dresult.reached) =>
          /\ dpc = "error"
          /\ dresult.err = SYNTAX_ERROR

\* C10 (amended): as above, but a SELECT still carrying INTO that reaches a
\* statement transformer fails with SYNTAX_ERROR unless the WITH clause of
\* that SELECT, which transformSelectStmt processes first, raised its own
\* error.
C10_IntoReachedFailsSyntaxOrWith ==
    /\ C10_LiftAtTopLevel
    /\ C10_NoLiftOfNested
    /\ (DispatchFinished /\ dresult.reached) =>
          /\ dpc = "error"
          /\ \/ dresult.err = SYNTAX_ERROR
             \/ /\ dresult.err = WITH_CLAUSE_ERROR
                /\ C10_IntoUnderRejectedWith(dtree)

\* a nested SELECT INTO was rejected with SYNTAX_ERROR and a top-level one lifted
C10_Witness ==
    /\ dpc = "error"
    /\ dresult.reached
    /\ dresult.err = SYNTAX_ERROR
    /\ dstmt.kind = "CreateTableAsStmt"
    /\ dstmt.is_select_into
    /\ C10_NestedInto(dtree, TRUE)

(***************************************************************************)
(* Properties of transformInsertStmt                                       *)
(***************************************************************************)
\* C11: the write lock on the target table is taken strictly before any
\* analysis of the source SELECT begins, for every shape of INSERT, and no
\* SELECT that mentions the target table takes the first lock on it: the
\* first event on the target table is setTargetTable
C11_TargetWriteLockFirst ==
    \A i \in 1..Len(itrace) :
        (itrace[i].op = "transformStmt" \/ itrace[i].rel = insertStmt.relation)
            => \E j \in 1..i : itrace[j].op = "setTargetTable"

(***************************************************************************)
(* Properties of transformExecDirectStmt                                   *)
(***************************************************************************)
\* the authorisation was reached and has decided, outside maintenance mode
ExecDirectDecided ==
    /\ ~xc_maintenance_mode
    /\ ~IS_PGXC_DATANODE
    /\ execStmt.node_names = 1
    /\ execStmt.node # "undefined"
    /\ Len(execStmt.query) = 1
    /\ epc \in {"done", "error"}

\* C12: without maintenance mode EXECUTE DIRECT accepts SELECT and the
\* whitelisted utilities (CREATE / DROP TABLESPACE) and refuses every
\* INSERT, UPDATE, DELETE and every other utility with
\* FEATURE_NOT_SUPPORTED, whichever node is targeted
C12_OnlySelectAndWhitelisted ==
    ExecDirectDecided =>
        IF execStmt.query[1] \in {"SelectStmt", "CreateTableSpaceStmt",
                                  "DropTableSpaceStmt"}
        THEN epc = "done"
        ELSE epc = "error" /\ eerr = FEATURE_NOT_SUPPORTED

(***************************************************************************)
(* Properties of transformSetOperationStmt                                 *)
(***************************************************************************)
\* the SetOperationStmt nodes of an analysed tree
RECURSIVE SetOpNodes(_)
SetOpNodes(node) ==
    IF node.tag = "RangeTblRef" THEN {}
    ELSE {node} \cup SetOpNodes(node.larg) \cup SetOpNodes(node.rarg)

\* the target list of the leftmost leaf query below node
LeftmostTargetList(node) ==
    setopPstate.p_rtable[LeftmostRTI(node)].subquery.targetList

\* the number of result columns a member statement asks for
RECURSIVE Arity(_)
Arity(stmt) == IF stmt.op = "SETOP_NONE" THEN stmt.cols ELSE Arity(stmt.larg)

\* some set operation of the statement has children of different arity
RECURSIVE ArityMismatch(_)
ArityMismatch(stmt) ==
    /\ stmt.op # "SETOP_NONE"
    /\ \/ Arity(stmt.larg) # Arity(stmt.rarg)
       \/ ArityMismatch(stmt.larg)
       \/ ArityMismatch(stmt.rarg)

\* some SELECT of the statement carries a locking clause
RECURSIVE AnyLockingClause(_)
AnyLockingClause(stmt) ==
    \/ stmt.lockingClause
    \/ /\ stmt.op # "SETOP_NONE"
       /\ AnyLockingClause(stmt.larg) \/ AnyLockingClause(stmt.rarg)

\* transformSetOperationStmt has left the analysis of the tree behind
TreeAnalysed == setopPc \notin {"idle", "start", "clauses"}

ThreeListsOfLength(node, n) ==
    /\ Len(node.colTypes) = n
    /\ Len(node.colTypmods) = n
    /\ Len(node.colCollations) = n

\* C13 as stated: for every set-operation node the three column lists have
\* the length of the leftmost leaf query's target list, and an arity
\* mismatch between the children of any node fails with SYNTAX_ERROR
C13_ListsMatchLeftmostTargetList ==
    /\ (TreeAnalysed /\ setopQry # NULL) =>
          \A node \in SetOpNodes(setopQry.setOperations) :
              ThreeListsOfLength(node, Len(LeftmostTargetList(node)))
    /\ (TreeAnalysed /\ ArityMismatch(setopStmt)) =>
          setopPc = "error" /\ setopErr = SYNTAX_ERROR

\* C13: for every set-operation node the three column lists have the same
\* length, the number of non-junk entries of the leftmost leaf query's
\* target list; an arity mismatch between the children of a node fails with
\* SYNTAX_ERROR when no SELECT of the statement is refused for its locking
\* clause first
C13_ListsMatchLeftmostNonJunk ==
    /\ (TreeAnalysed /\ setopQry # NULL) =>
          \A node \in SetOpNodes(setopQry.setOperations) :
              ThreeListsOfLength(node,
                  Cardinality({i \in DOMAIN LeftmostTargetList(node) :
                                  ~LeftmostTargetList(node)[i].resjunk}))
    /\ ( /\ TreeAnalysed
         /\ ArityMismatch(setopStmt)
         /\ ~sv.lockingClause
         /\ ~AnyLockingClause(setopStmt) )
       => setopPc = "error" /\ setopErr = SYNTAX_ERROR

\* a UNION of three members was analysed whose leftmost member has a resjunk
\* entry after its two result columns
C13_Witness ==
    /\ setopPc = "done"
    /\ setopQry.setOperations.larg.tag = "SetOperationStmt"
    /\ Len(setopQry.setOperations.colTypes) = 2
    /\ Len(LeftmostTargetList(setopQry.setOperations)) = 3

\* the range table and namespace transformSetOperationStmt was entered with
EntryNamespace ==
    IF setopPstate.p_rtable # <<>> /\ setopPstate.p_rtable[1].rtekind = "RTE_RELATION"
    THEN <<1, 2>>
    ELSE <<>>

\* the sort clause has been resolved and the state restored: on the normal
\* path, or with the error for an item ORDER BY added to the target list
SortClauseLeft ==
    \/ setopPc \in {"restored", "done"}
    \/ /\ setopPc = "error"
       /\ "tllen" \in DOMAIN sv
       /\ setopErr = FEATURE_NOT_SUPPORTED
       /\ Len(setopQry.targetList) # sv.tllen

\* C14: the join entry pushed to resolve ORDER BY is removed again: after
\* the sort clause is resolved the range table has the length it had before
\* the entry was added and the namespace its saved value, on the normal path
\* and before the FEATURE_NOT_SUPPORTED error for an added target-list item
C14_JoinEntryRemoved ==
    /\ setopPc \in {"pushed", "sorted"} =>
          /\ Len(setopPstate.p_rtable) = sv.sv_rtable_length + 1
          /\ setopPstate.p_rtable[Len(setopPstate.p_rtable)].rtekind = "RTE_JOIN"
    /\ SortClauseLeft =>
          /\ Len(setopPstate.p_rtable) = sv.sv_rtable_length
          /\ \A i \in 1..Len(setopPstate.p_rtable) :
                setopPstate.p_rtable[i].rtekind # "RTE_JOIN"
          /\ setopPstate.p_namespace = sv.sv_namespace
          /\ setopPstate.p_namespace = EntryNamespace

\* ORDER BY added a target-list item in a statement entered with a range
\* table and namespace of its own; the error came after the restore
C14_Witness ==
    /\ setopPc = "error"
    /\ "tllen" \in DOMAIN sv
    /\ setopErr = FEATURE_NOT_SUPPORTED
    /\ Len(setopQry.targetList) > sv.tllen
    /\ sv.sv_namespace = <<1, 2>>
    /\ sv.sv_rtable_length > 2

(***************************************************************************)
(* Properties of transformUpdateStmt                                       *)
(***************************************************************************)
UpdateFinished == updPc \in {"done", "error"}

\* the number of non-junk entries the SET list is transformed into
RECURSIVE EntriesOf(_)
EntriesOf(targetList) ==
    IF targetList = <<>> THEN 0
    ELSE Head(targetList).entries + EntriesOf(Tail(targetList))

\* the positions of the non-junk entries of the output, in order
OutputNonJunk ==
    SelectSeq([i \in 1..Len(updQry.targetList) |-> i],
              LAMBDA i : ~updQry.targetList[i].resjunk)

UnknownColumn(i) == attnameAttNum(updateStmt.targetList[i].name) = InvalidAttrNumber

\* the SET items that get matched with an entry before the count is found
\* to differ
Matched ==
    IF EntriesOf(updateStmt.targetList) < Len(updateStmt.targetList)
    THEN EntriesOf(updateStmt.targetList)
    ELSE Len(updateStmt.targetList)

\* C15 as stated: an accepted UPDATE has an output target list of the length
\* of the input's, each non-junk entry with the attribute number of the
\* column named at the same position; a count mismatch fails with an
\* internal error and an unknown column with UNDEFINED_COLUMN
C15_SameLengthAndAttnums ==
    /\ updPc = "done" =>
          /\ Len(updQry.targetList) = Len(updateStmt.targetList)
          /\ \A i \in 1..Len(updQry.targetList) :
                ~updQry.targetList[i].resjunk =>
                    /\ i <= Len(updateStmt.targetList)
                    /\ updQry.targetList[i].resno
                          = attnameAttNum(updateStmt.targetList[i].name)
    /\ ( /\ UpdateFinished
         /\ EntriesOf(updateStmt.targetList) # Len(updateStmt.targetList) )
       => updPc = "error" /\ updErr = INTERNAL_ERROR
    /\ (UpdateFinished /\ \E i \in 1..Len(updateStmt.targetList) : UnknownColumn(i))
       => updPc = "error" /\ updErr = UNDEFINED_COLUMN

\* C15: an accepted UPDATE has as many non-junk output entries as the input
\* has items, the k-th with the attribute number of the column the k-th item
\* names, and its resjunk entries are numbered above the table's columns; an
\* unknown column among the items matched fails with UNDEFINED_COLUMN, and
\* otherwise a count mismatch fails with an internal error
C15_NonJunkMatchInput ==
    /\ updPc = "done" =>
          /\ Len(OutputNonJunk) = Len(updateStmt.targetList)
          /\ \A k \in 1..Len(OutputNonJunk) :
                /\ updQry.targetList[OutputNonJunk[k]].resno
                      = attnameAttNum(updateStmt.targetList[k].name)
                /\ updQry.targetList[OutputNonJunk[k]].resno # InvalidAttrNumber
          /\ \A i \in 1..Len(updQry.targetList) :
                updQry.targetList[i].resjunk => updQry.targetList[i].resno > relnatts
    /\ (UpdateFinished /\ \E k \in 1..Matched : UnknownColumn(k))
       => updPc = "error" /\ updErr = UNDEFINED_COLUMN
    /\ ( /\ UpdateFinished
         /\ \A k \in 1..Matched : ~UnknownColumn(k)
         /\ EntriesOf(updateStmt.targetList) # Len(updateStmt.targetList) )
       => updPc = "error" /\ updErr = INTERNAL_ERROR

\* UPDATE t SET b = ..., a = ... was accepted with a resjunk entry in its
\* transformed target list
C15_Witness ==
    /\ updPc = "done"
    /\ Len(updateStmt.targetList) = 2
    /\ updateStmt.targetList[1].name = "b"
    /\ updateStmt.targetList[2].name = "a"
    /\ Len(updQry.targetList) = 3
    /\ updQry.targetList[3].resjunk

\* C29: in the Query of an accepted UPDATE every resjunk entry is numbered
\* above the target table's column count, the numbers of the resjunk
\* entries are pairwise distinct, and none equals the attribute number
\* carried by a non-junk entry.
C29_JunkResnosAboveColumnsAndDistinct ==
    updPc = "done" =>
        \A i \in 1..Len(updQry.targetList) :
            updQry.targetList[i].resjunk =>
                /\ updQry.targetList[i].resno > relnatts
                /\ \A j \in 1..Len(updQry.targetList) :
                       (j # i /\ updQry.targetList[j].resjunk)
                       => updQry.targetList[j].resno # updQry.targetList[i].resno
                /\ \A j \in 1..Len(updQry.targetList) :
                       ~updQry.targetList[j].resjunk
                       => /\ updQry.targetList[j].resno
                                 \in {attnameAttNum(updateStmt.targetList[k].name) :
                                         k \in 1..Len(updateStmt.targetList)}
                          /\ updQry.targetList[j].resno # updQry.targetList[i].resno

\* UPDATE t SET b = ... was accepted with two resjunk entries after the
\* entry of b, which had been made with the numbers 2 and 3
C29_Witness ==
    /\ updPc = "done"
    /\ Len(updQry.targetList) = 3
    /\ updQry.targetList[1].resno = attnameAttNum("b")
    /\ updQry.targetList[2].resjunk
    /\ updQry.targetList[3].resjunk

(***************************************************************************)
(* Properties of the column loop of transformSetOperationTree              *)
(***************************************************************************)
\* C21 as stated: the result typmod of each column is the left column's
\* typmod when the left and right typmods are equal, and -1 otherwise
C21_TypmodFromTypmodsAlone ==
    colPc # "idle" =>
        \A i \in 1..Len(colOp.colTypmods) :
            colOp.colTypmods[i] =
                IF ltargetlist[i].typmod = rtargetlist[i].typmod
                THEN ltargetlist[i].typmod
                ELSE -1

\* C21: the result typmod of each column of an internal set-operation node
\* is the left column's typmod when the left and right columns have the
\* same type and the same typmod, and -1 otherwise
C21_TypmodWhenTypeAndTypmodAgree ==
    colPc # "idle" =>
        /\ Len(colOp.colTypmods) = Len(colOp.colTypes)
        /\ Len(colOp.colTypmods) <= Len(ltargetlist)
        /\ colPc = "done" => Len(colOp.colTypmods) = Len(ltargetlist)
        /\ \A i \in 1..Len(colOp.colTypmods) :
            /\ ( /\ ltargetlist[i].type = rtargetlist[i].type
                 /\ ltargetlist[i].typmod = rtargetlist[i].typmod )
               => colOp.colTypmods[i] = ltargetlist[i].typmod
            /\ ( \/ ltargetlist[i].type # rtargetlist[i].type
                 \/ ltargetlist[i].typmod # rtargetlist[i].typmod )
               => colOp.colTypmods[i] = -1

\* a node of two columns is returned: varchar(14) over varchar(14) keeps its
\* typmod, varchar(14) over char(14) does not
C21_Witness ==
    /\ colPc = "done"
    /\ Len(colOp.colTypmods) = 2
    /\ ltargetlist = <<ColExpr(VARCHAROID, 18), ColExpr(VARCHAROID, 18)>>
    /\ rtargetlist = <<ColExpr(VARCHAROID, 18), ColExpr(BPCHAROID, 18)>>
    /\ colOp.colTypmods = <<18, -1>>

(***************************************************************************)
(* Properties of transformSelectStmt                                       *)
(***************************************************************************)
\* the transformer named was called, and where in the trace
Called(name) == \E i \in 1..Len(selTrace) : selTrace[i] = name

CallOf(name) == CHOOSE i \in 1..Len(selTrace) : selTrace[i] = name

\* WHERE was transformed before the target list
WhereBeforeTargetList ==
    CallOf("transformWhereClause") < CallOf("transformTargetList")

\* the calls from HAVING on, as the statement has them
AfterWhereAndTargets ==
    <<"transformHavingClause", "transformSortClause", "transformGroupClause">>
        \o (IF selStmt.distinctClause = "DISTINCT" THEN <<"transformDistinctClause">>
            ELSE IF selStmt.distinctClause = "DISTINCT ON"
            THEN <<"transformDistinctOnClause">>
            ELSE <<>>)
        \o <<"transformLimitClause", "transformWindowDefinitions">>

\* FROM precedes WHERE and the target list, and the calls after them come
\* in the order HAVING, ORDER BY, GROUP BY, DISTINCT, LIMIT, WINDOW
FromFirstAndTailInOrder ==
    /\ CallOf("transformFromClause") < CallOf("transformWhereClause")
    /\ CallOf("transformFromClause") < CallOf("transformTargetList")
    /\ \E k \in 1..Len(selTrace) :
        /\ k >= CallOf("transformWhereClause")
        /\ k >= CallOf("transformTargetList")
        /\ SubSeq(selTrace, k + 1, Len(selTrace)) = AfterWhereAndTargets

LockingLeft == lcPc \in {"done", "error"}

Lockable(rte) == rte.rtekind \in {"RTE_RELATION", "RTE_SUBQUERY"}

MarkedEntries(qry) == {qry.rowMarks[k].rti : k \in 1..Len(qry.rowMarks)}

\* every row-mark of qry is the clause's, with the pushedDown given
MarksAreOfClause(qry, pd) ==
    /\ Len(qry.rowMarks) = Cardinality(MarkedEntries(qry))
    /\ \A k \in 1..Len(qry.rowMarks) :
        /\ qry.rowMarks[k].strength = lcClause.strength
        /\ qry.rowMarks[k].noWait = lcClause.noWait
        /\ qry.rowMarks[k].pushedDown = pd

\* qry has a row-mark on each of its RELATION and SUBQUERY entries and on
\* no other, and so, pushed down, has the Query of each SUBQUERY entry
RECURSIVE MarkedThroughout(_, _)
MarkedThroughout(qry, pd) ==
    /\ MarkedEntries(qry) = {i \in 1..Len(qry.rtable) : Lockable(qry.rtable[i])}
    /\ MarksAreOfClause(qry, pd)
    /\ \A i \in 1..Len(qry.rtable) :
        qry.rtable[i].rtekind = "RTE_SUBQUERY" =>
            MarkedThroughout(qry.rtable[i].subquery, TRUE)

\* CheckSelectLocking refuses qry, or a Query under it
RECURSIVE Refused(_)
Refused(qry) ==
    \/ qry.distinctClause
    \/ \E i \in 1..Len(qry.rtable) :
        /\ qry.rtable[i].rtekind = "RTE_SUBQUERY"
        /\ Refused(qry.rtable[i].subquery)

AliasMatches(name) ==
    {i \in 1..Len(lcQry.rtable) : lcQry.rtable[i].aliasname = name.relname}

FirstEntryNamed(name) ==
    lcQry.rtable[CHOOSE i \in AliasMatches(name) : \A j \in AliasMatches(name) : i <= j]

\* what a name of the list leads to
NameOutcome(name) ==
    IF name.qualified THEN SYNTAX_ERROR
    ELSE IF AliasMatches(name) = {} THEN UNDEFINED_TABLE
    ELSE IF FirstEntryNamed(name).rtekind \in
                {"RTE_JOIN", "RTE_FUNCTION", "RTE_VALUES", "RTE_CTE"}
    THEN FEATURE_NOT_SUPPORTED
    ELSE IF /\ FirstEntryNamed(name).rtekind = "RTE_SUBQUERY"
            /\ Refused(FirstEntryNamed(name).subquery)
    THEN FEATURE_NOT_SUPPORTED
    ELSE NoError

\* the outcome of the first name of the list that does not pass
ListOutcome(rels) ==
    IF \A k \in 1..Len(rels) : NameOutcome(rels[k]) = NoError THEN NoError
    ELSE NameOutcome(rels[CHOOSE k \in 1..Len(rels) :
                            /\ NameOutcome(rels[k]) # NoError
                            /\ \A j \in 1..(k - 1) : NameOutcome(rels[j]) = NoError])

\* C24: with an empty list of relations the clause is applied to every
\* RELATION and SUBQUERY entry and to no other, and inside each sub-query
\* with pushedDown; with a list of names the first name that does not pass
\* decides: qualified gives SYNTAX_ERROR, a first alias match of kind JOIN,
\* FUNCTION, VALUES or CTE gives FEATURE_NOT_SUPPORTED, no match gives
\* UNDEFINED_TABLE
C24_AllOrNamedRelations ==
    /\ (LockingLeft /\ lcClause.lockedRels = <<>> /\ ~Refused(lcQry)) =>
          /\ lcPc = "done"
          /\ MarkedThroughout(lcQry, FALSE)
    /\ (LockingLeft /\ lcClause.lockedRels # <<>> /\ ~lcQry.distinctClause) =>
          /\ lcErr = ListOutcome(lcClause.lockedRels)
          /\ lcPc = "error" <=> ListOutcome(lcClause.lockedRels) # NoError
          /\ lcPc = "done" =>
                /\ MarksAreOfClause(lcQry, FALSE)
                /\ \A i \in MarkedEntries(lcQry) : Lockable(lcQry.rtable[i])

\* FOR UPDATE without names went through a relation, a join and a
\* subquery holding a subquery of its own
C24_Witness ==
    /\ lcPc = "done"
    /\ lcClause.lockedRels = <<>>
    /\ Len(lcQry.rtable) = 2
    /\ lcQry.rtable[1].rtekind = "RTE_JOIN"
    /\ lcQry.rtable[2].rtekind = "RTE_SUBQUERY"
    /\ Len(lcQry.rtable[2].subquery.rtable) = 2
    /\ MarkedEntries(lcQry) = {2}
    /\ lcQry.rtable[2].subquery.rowMarks[1].pushedDown
    /\ lcQry.rtable[2].subquery.rtable[1].subquery.rowMarks[1].pushedDown

(***************************************************************************)
(* Properties of transformDeleteStmt and transformUpdateStmt               *)
(***************************************************************************)
\* the namespace item of the target relation
TargetItem ==
    dmlPstate.p_namespace[CHOOSE i \in 1..Len(dmlPstate.p_namespace) :
                              dmlPstate.p_namespace[i].p_rte = resultRelation]

\* C26: the namespace item of the target relation has lateral_only = true
\* and lateral_ok = false during the whole transformation of USING / FROM,
\* and lateral_only = false and lateral_ok = true when WHERE and RETURNING
\* are transformed
C26_TargetHiddenDuringFromOnly ==
    /\ dmlPc = "from" =>
          TargetItem.p_lateral_only /\ ~TargetItem.p_lateral_ok
    /\ dmlPc \in {"where", "returning"} =>
          ~TargetItem.p_lateral_only /\ TargetItem.p_lateral_ok
    /\ dmlPc # "idle" =>
          \A i \in 1..Len(dmlSeen) :
              /\ dmlSeen[i].clause = "FROM" =>
                    /\ dmlSeen[i].p_rte = resultRelation
                    /\ dmlSeen[i].p_lateral_only
                    /\ ~dmlSeen[i].p_lateral_ok
              /\ dmlSeen[i].clause \in {"WHERE", "RETURNING"} =>
                    /\ dmlSeen[i].p_rte = resultRelation
                    /\ ~dmlSeen[i].p_lateral_only
                    /\ dmlSeen[i].p_lateral_ok

\* a DELETE inside a rule, with two USING items, has been analysed
C26_Witness ==
    /\ dmlPc = "done"
    /\ dmlStmt.kind = "DeleteStmt"
    /\ Len(dmlStmt.fromClause) = 2
    /\ resultRelation = 3
    /\ Cardinality({i \in 1..Len(dmlSeen) : dmlSeen[i].clause = "FROM"}) = 2
    /\ \E i \in 1..Len(dmlSeen) : dmlSeen[i].clause = "RETURNING"

(***************************************************************************)
(* Properties of the recursion of the set-operation analysis               *)
(***************************************************************************)
RecTerminated == recStack = <<>> /\ recPc \in {"done", "error"}

\* no call is made twice on the same node carrying the same clauses
NoRevisit ==
    \A i \in 1..Len(recVisits) : \A j \in 1..Len(recVisits) :
        recVisits[i] = recVisits[j] => i = j

\* transformSetOperationTree never takes the statement its caller
\* transformSetOperationStmt has stripped for a leaf
StrippedNodeIsInternal ==
    \A i \in 2..Len(recStack) :
        (/\ recStack[i].fn = "transformSetOperationTree"
         /\ recStack[i - 1].fn = "transformSetOperationStmt")
        => recStack[i].pc # "leaf"

\* a call works on a child of its caller's node, or on the caller's node
\* once that node carries no leaf-forcing clause or is handed on as a leaf
SubtreeOrStripped ==
    \A i \in 2..Len(recStack) :
        \/ /\ Len(recStack[i].path) = Len(recStack[i - 1].path) + 1
           /\ SubSeq(recStack[i].path, 1, Len(recStack[i - 1].path))
                  = recStack[i - 1].path
        \/ /\ recStack[i].path = recStack[i - 1].path
           /\ recStack[i].fn # recStack[i - 1].fn
           /\ recStack[i].fn = "transformSetOperationTree"
                  => ~NodeAt(recTree, recStack[i].path).sortClause

\* C27: the analysis of every finite set-operation tree terminates: the
\* top statement, stripped of its clauses, is processed as an internal
\* node, every further call works on a strict subtree or on a node whose
\* leaf-forcing clauses are gone, and no call revisits a node in the same
\* state.
C27_SetOperationAnalysisTerminates ==
    /\ [](NoRevisit /\ StrippedNodeIsInternal /\ SubtreeOrStripped)
    /\ <>RecTerminated

\* the analysis has ended normally after an internal node that carried
\* ORDER BY went through parse_sub_analyze back to transformSetOperationStmt
C27_Witness ==
    /\ recPc = "done"
    /\ recStack = <<>>
    /\ \E i \in 1..Len(recVisits) :
           /\ recVisits[i].fn = "parse_sub_analyze"
           /\ recVisits[i].sortClause
           /\ \E j \in (i + 1)..Len(recVisits) :
                  /\ recVisits[j].fn = "transformSetOperationStmt"
                  /\ recVisits[j].path = recVisits[i].path

(***************************************************************************)
(* Properties of is_relation_child                                         *)
(***************************************************************************)
\* some relation entry of the rtable, or of the rtable of a sub-query entry
\* in it, at any depth and position, is an inheritance parent of child
RECURSIVE ParentAnywhere(_, _)
ParentAnywhere(child, entries) ==
    \E i \in 1..Len(entries) :
        \/ /\ entries[i].rtekind = "RTE_RELATION"
           /\ is_rel_child_of_rel(child, entries[i])
        \/ /\ entries[i].rtekind = "RTE_SUBQUERY"
           /\ ParentAnywhere(child, entries[i].subquery.rtable)

\* C28: is_relation_child returns true if and only if some relation entry
\* of the rtable or of a sub-query in it, at any depth and at any position,
\* is an inheritance parent of the child relation.
C28_TrueIffParentAnywhere ==
    (childPc = "done" /\ onCoordinator /\ target_rte # NULL
        /\ target_rte.rtekind = "RTE_RELATION")
    => (childResult <=> ParentAnywhere(target_rte, selectRtable))

\* what the loop does find: a parent reached without passing a sub-query
\* entry, or inside the first sub-query entry, to which the same applies
RECURSIVE ParentBeforeOrInFirstSubquery(_, _, _)
ParentBeforeOrInFirstSubquery(child, entries, i) ==
    /\ i <= Len(entries)
    /\ \/ /\ entries[i].rtekind = "RTE_RELATION"
          /\ is_rel_child_of_rel(child, entries[i])
       \/ /\ entries[i].rtekind = "RTE_SUBQUERY"
          /\ ParentBeforeOrInFirstSubquery(child, entries[i].subquery.rtable, 1)
       \/ /\ entries[i].rtekind # "RTE_SUBQUERY"
          /\ ParentBeforeOrInFirstSubquery(child, entries, i + 1)

\* the answer of is_relation_child in those terms
ChildResultStopsAtFirstSubquery ==
    (childPc = "done" /\ onCoordinator /\ target_rte # NULL
        /\ target_rte.rtekind = "RTE_RELATION")
    => (childResult <=> ParentBeforeOrInFirstSubquery(target_rte, selectRtable, 1))

(***************************************************************************)
(* Properties of analyze_new_join                                          *)
(***************************************************************************)
\* the parse state as transformFromClause left it, before the join list
\* was rewritten
BeforeRewrite == transformFromClause(pstate, parseTree.fromClause)

\* the range-table indexes of the JoinExprs of a join tree that are above
\* base, in the order analyze_new_join finishes them: left side, right
\* side, then the join itself
RECURSIVE NewJoinsOf(_, _)
NewJoinsOf(node, base) ==
    IF node.tag = "RangeTblRef" THEN <<>>
    ELSE NewJoinsOf(node.larg, base) \o NewJoinsOf(node.rarg, base)
            \o (IF node.rtindex > base THEN <<node.rtindex>> ELSE <<>>)

NewJoins ==
    SeqConcat([i \in 1..Len(pstate.p_joinlist) |->
                  NewJoinsOf(pstate.p_joinlist[i], Len(BeforeRewrite.p_rtable))])

SelectTransformed ==
    /\ parseTree.kind = "SelectStmt"
    /\ qpc \notin {"idle", "start", "error"}

\* C30: the k-th JoinExpr that analyze_new_join makes has the range-table
\* index the range table has as its length once the join's entry is
\* appended; p_joinexprs is padded with nulls so that it is as long as that
\* index and holds the JoinExpr there; the range-table entries and the
\* links there were before stay where they were.
C30_NewJoinIndexedAtAppendedLength ==
    SelectTransformed =>
        /\ SubSeq(pstate.p_rtable, 1, Len(BeforeRewrite.p_rtable))
              = BeforeRewrite.p_rtable
        /\ SubSeq(pstate.p_joinexprs, 1, Len(BeforeRewrite.p_joinexprs))
              = BeforeRewrite.p_joinexprs
        /\ Len(pstate.p_rtable) = Len(BeforeRewrite.p_rtable) + Len(NewJoins)
        /\ \A k \in 1..Len(NewJoins) :
              /\ NewJoins[k] = Len(BeforeRewrite.p_rtable) + k
              /\ pstate.p_rtable[NewJoins[k]] = "RTE_JOIN"
              /\ Len(pstate.p_joinexprs) >= NewJoins[k]
              /\ pstate.p_joinexprs[NewJoins[k]] = NewJoins[k]
        /\ NewJoins # <<>> =>
              /\ Len(pstate.p_joinexprs) = Len(pstate.p_rtable)
              /\ \A i \in (Len(BeforeRewrite.p_joinexprs) + 1)
                              ..Len(BeforeRewrite.p_rtable) :
                    pstate.p_joinexprs[i] = 0

\* a new JoinExpr was made over a range table of relations that had fewer
\* links than entries, so that nulls were put before its link
C30_Witness ==
    /\ SelectTransformed
    /\ NewJoins # <<>>
    /\ Len(BeforeRewrite.p_joinexprs) < Len(BeforeRewrite.p_rtable)
    /\ pstate.p_joinexprs[Len(BeforeRewrite.p_rtable)] = 0
    /\ pstate.p_joinexprs[Len(pstate.p_rtable)] = Len(pstate.p_rtable)

(***************************************************************************)
(* Properties of the entry points                                          *)
(***************************************************************************)
\* C3: a call of parse_analyze_for_gram or parse_analyze_varparams_for_gram
\* that pushed the override search path pops it exactly once before control
\* leaves the call, by return or by error, and leaves the override stack as
\* deep as it found it; a nested call (EXECUTE DIRECT) does the same.
C3_OverridePoppedOnEveryExit ==
    lastExit.fn \in GramEntries =>
        /\ lastExit.pops = lastExit.pushes
        /\ lastExit.depthAfter = lastExit.depth0

\* a nested parse_analyze (from transformExecDirectStmt) that had pushed was
\* left by an error, its caller still being on the stack
C3_Witness ==
    /\ stack # <<>>
    /\ lastExit.fn = ForGram
    /\ lastExit.outcome = "error"
    /\ lastExit.pushes = 1
    /\ lastExit.pops = 1

AppliedTo(r) == {c \in applied : c.rti = r}

MaxStrength(S) == CHOOSE s \in {c.strength : c \in S} :
                      \A c \in S : c.strength <= s

\* C1: merging into an existing row-mark for r gives (max of the strengths,
\* OR of noWait, AND of pushedDown); so whatever the order in which a set of
\* clauses was applied to r, the row-mark of r is the max / OR / AND over
\* all of them.
C1_MergeIsOrderIndependent ==
    \A r \in 1..MaxRti :
        LET i == get_parse_rowmark(rowMarks, r)
            S == AppliedTo(r)
        IN  /\ (i = 0) <=> (S = {})
            /\ i # 0 =>
                  /\ rowMarks[i] =
                        RowMarkClause(r, MaxStrength(S),
                                      \E c \in S : c.noWait,
                                      \A c \in S : c.pushedDown)
                  /\ \A s2 \in LockClauseStrength, nw2 \in BOOLEAN, pd2 \in BOOLEAN :
                        applyLockingClause(rowMarks, hasForUpdate,
                                           r, s2, nw2, pd2).rowMarks[i] =
                        RowMarkClause(r, Max(rowMarks[i].strength, s2),
                                      rowMarks[i].noWait \/ nw2,
                                      rowMarks[i].pushedDown /\ pd2)

\* three clauses of different strength met on one range-table index, and the
\* merged row-mark differs from at least one of them in every field
C1_Witness ==
    \E r \in 1..MaxRti :
        LET i == get_parse_rowmark(rowMarks, r)
            S == AppliedTo(r)
        IN  /\ i # 0
            /\ Cardinality({c.strength : c \in S}) = 3
            /\ rowMarks[i].noWait /\ \E c \in S : ~c.noWait
            /\ ~rowMarks[i].pushedDown /\ \E c \in S : c.pushedDown

\* C2: hasForUpdate is true exactly when some call was explicit (not pushed
\* down), also when that call merged into an existing row-mark; and from the
\* row-mark (r, SHARE, noWait=false, pushedDown=true) the call
\* (r, UPDATE, noWait=true, pushedDown=false) gives (r, UPDATE, true, false)
\* with hasForUpdate set.
C2_HasForUpdateIffExplicit ==
    /\ hasForUpdate <=> \E c \in applied : ~c.pushedDown
    /\ \A r \in 1..MaxRti :
          LET i == get_parse_rowmark(rowMarks, r)
              res == applyLockingClause(rowMarks, hasForUpdate,
                                        r, LCS_FORUPDATE, TRUE, FALSE)
          IN  (i # 0 /\ rowMarks[i] = RowMarkClause(r, LCS_FORSHARE, FALSE, TRUE))
                => /\ res.rowMarks[i] = RowMarkClause(r, LCS_FORUPDATE, TRUE, FALSE)
                   /\ res.hasForUpdate
                   /\ Len(res.rowMarks) = Len(rowMarks)

\* the scenario has run: an explicit FOR UPDATE NOWAIT merged into a
\* pushed-down FOR SHARE row-mark, and no other explicit call was made
C2_Witness ==
    \E r \in 1..MaxRti :
        LET i == get_parse_rowmark(rowMarks, r)
        IN  /\ applied = {RowMarkClause(r, LCS_FORSHARE, FALSE, TRUE),
                          RowMarkClause(r, LCS_FORUPDATE, TRUE, FALSE)}
            /\ Len(rowMarks) = 1
            /\ i = 1
            /\ rowMarks[1] = RowMarkClause(r, LCS_FORUPDATE, TRUE, FALSE)
            /\ hasForUpdate

\* the row-mark list holds at most one row-mark per range-table index
C25_OneMarkPerIndex ==
    \A i, j \in 1..Len(rowMarks) : rowMarks[i].rti = rowMarks[j].rti => i = j

\* one call: every row-mark stays in its place and on its index, its
\* strength does not decrease, noWait does not go back from true to false,
\* pushedDown does not go back from false to true
C25_FieldsMonotone ==
    /\ Len(rowMarks') >= Len(rowMarks)
    /\ \A i \in 1..Len(rowMarks) :
        /\ rowMarks'[i].rti = rowMarks[i].rti
        /\ rowMarks'[i].strength >= rowMarks[i].strength
        /\ rowMarks[i].noWait => rowMarks'[i].noWait
        /\ ~rowMarks[i].pushedDown => ~rowMarks'[i].pushedDown

\* C25: after any sequence of applyLockingClause calls the row-mark list
\* holds at most one row-mark per range-table index, and for each index the
\* strength never decreases, noWait never reverts from true to false and
\* pushedDown never reverts from false to true
C25_OneMarkPerIndexAndMonotone ==
    []C25_OneMarkPerIndex /\ [][C25_FieldsMonotone]_vars

\* every index has a row-mark, and the first one has been raised to the
\* strongest explicit NOWAIT mark from the weakest pushed-down one
C25_Witness ==
    /\ Len(rowMarks) = MaxRti
    /\ rowMarks[1].strength = LCS_FORUPDATE
    /\ rowMarks[1].noWait
    /\ ~rowMarks[1].pushedDown
    /\ RowMarkClause(rowMarks[1].rti, LCS_FORKEYSHARE, FALSE, TRUE) \in applied
    /\ RowMarkClause(rowMarks[1].rti, LCS_FORUPDATE, TRUE, FALSE) \in applied

=============================================================================
